---- MODULE Spec2Model ----
(***************************************************************************)
(* Model of the electron-density components of mwprop.nemod:               *)
(*   nevoidN.py            void scan, scalar and batched                   *)
(*   density_components.py Galactic-centre term, disk coefficient reads    *)
(*   galaxy_model.py       GalaxyModel._setup / refresh                    *)
(*   ne_arms.py            nearest-arm search, scalar and batched          *)
(*                                                                         *)
(* Numbers.  Coordinates, axis lengths and coefficients are integers on a  *)
(* grid (one unit = one grid step of the catalogue), so every comparison   *)
(* the code makes on floats is made exactly here.  A quotient a/b < c is   *)
(* written a < c*b (b > 0).  exp(-q) is kept symbolic: a density value is  *)
(* a record [c, qn, qd] standing for c * exp(-qn/qd), qn/qd in lowest      *)
(* terms, so two values are equal iff coefficient and exponent are equal.  *)
(* Python indices start at 0, sequences here at 1: position j here is      *)
(* index j-1 in the source, and hitvoid = j+1 there is j here.             *)
(***************************************************************************)
EXTENDS Integers, Sequences, FiniteSets, TLC

VARIABLES
    cat,        \* void catalogue: xv, yv, zv, nev, Fv, aav, bbv, ccv, edgev, c1, s1, c2, s2
    vcall,      \* the outstanding call of nevoidN / nevoidN_vec: kind, points, results
    presets,    \* the two parameter sets on disk, by preset name
    whichfile,  \* content of params/which_model.inp
    cfg,        \* globals of config_nemod: flags and coefficients of the active preset
    dc,         \* globals of density_components, and the default of ne_gc's absymax
    lastSel,    \* argument of the last set_model call ("none" before the first)
    dcall,      \* the outstanding call of ne_gc / ne_outer / ne_inner
    model,      \* fields of galaxy_model.default_model
    acall,      \* the outstanding call of ne_arms_ne2001p / ne_arms_ne2001p_vec
    wpc,        \* a set_model in progress: 0, or the next field _setup assigns
    rpc,        \* an ne_arms_ne2001p in progress: 0, or the next field it reads
    rsnap,      \* the fields of default_model that call has read so far
    los         \* the line-of-sight integration in progress, and its ray

voidVars == <<cat, vcall>>
cfgVars == <<presets, whichfile, cfg, dc, lastSel, dcall>>
threadVars == <<wpc, rpc, rsnap>>
vars == <<cat, vcall, presets, whichfile, cfg, dc, lastSel, dcall, model, acall, wpc, rpc, rsnap, los>>

----------------------------------------------------------------------------
(* Bounds of the model *)

MaxVoids == 2
MaxBatch == 2
\* Coarse samples per arm, and fine steps (dthfine) per coarse interval.
NCoarse == 8
FineDiv == 2
\* Line of sight: fine steps (ds_fine) per coarse step (ds_coarse), coarse
\* steps up to the maximum distance, and the maximum DM.
StepRatio == 2
PathCoarse == 3
DMCeil == 6

----------------------------------------------------------------------------
(* Arithmetic helpers *)

Abs(a) == IF a < 0 THEN -a ELSE a

RECURSIVE GCD(_, _)
GCD(a, b) == IF b = 0 THEN a ELSE GCD(b, a % b)

Sq(a) == a * a

\* c * exp(-qn/qd), canonical; 0 * exp(anything) is the number 0.
ExpVal(c, qn, qd) ==
    IF c = 0 THEN [c |-> 0, qn |-> 0, qd |-> 1]
    ELSE LET g == GCD(qn, qd) IN [c |-> c, qn |-> qn \div g, qd |-> qd \div g]

Num(c) == ExpVal(c, 0, 1)

----------------------------------------------------------------------------
(* nevoidN.py *)

nvoids == Len(cat)

\* Rotation products the configuration derives from the two rotation angles
\* of a void (thvy, thvz) and hands to the scan as arrays.
cc12(v) == v.c1 * v.c2
cs21(v) == v.c2 * v.s1
cs12(v) == v.c1 * v.s2
ss12(v) == v.s1 * v.s2

\* The three rotated offsets of the quadratic form q (nevoidN.py 62-67).
T1(v, p) == cc12(v) * (p.x - v.xv) + v.s2 * (p.y - v.yv) + cs21(v) * (p.z - v.zv)
T2(v, p) == -cs12(v) * (p.x - v.xv) + v.c2 * (p.y - v.yv) - ss12(v) * (p.z - v.zv)
T3(v, p) == -v.s1 * (p.x - v.xv) + v.c1 * (p.z - v.zv)

\* q = QNum / QDen, over the common denominator aav^2 bbv^2 ccv^2.
QDen(v) == Sq(v.aav) * Sq(v.bbv) * Sq(v.ccv)
QNum(v, p) ==
    Sq(T1(v, p)) * Sq(v.bbv) * Sq(v.ccv)
  + Sq(T2(v, p)) * Sq(v.aav) * Sq(v.ccv)
  + Sq(T3(v, p)) * Sq(v.aav) * Sq(v.bbv)

NoHit == [nevN |-> Num(0), FvN |-> 0, hitvoid |-> 0]

\* A scan that keeps the first matching void instead of the last.
VoidStepFirstWins(acc, j, p) ==
    LET v == cat[j]
        hit0 == v.edgev = 0 /\ QNum(v, p) < 3 * QDen(v)
        hit1 == v.edgev = 1 /\ QNum(v, p) <= QDen(v)
    IN  IF acc.hitvoid = 0 /\ hit0
        THEN [nevN |-> ExpVal(v.nev, QNum(v, p), QDen(v)), FvN |-> v.Fv, hitvoid |-> j]
        ELSE IF acc.hitvoid = 0 /\ hit1
        THEN [nevN |-> Num(v.nev), FvN |-> v.Fv, hitvoid |-> j]
        ELSE acc

\* A scan whose hit index is the 0-based loop index.
VoidStepZeroBased(acc, j, p) ==
    LET v == cat[j]
        a1 == IF v.edgev = 0 /\ QNum(v, p) < 3 * QDen(v)
              THEN [nevN |-> ExpVal(v.nev, QNum(v, p), QDen(v)), FvN |-> v.Fv,
                    hitvoid |-> j - 1]
              ELSE acc
    IN  IF v.edgev = 1 /\ QNum(v, p) <= QDen(v)
        THEN [nevN |-> Num(v.nev), FvN |-> v.Fv, hitvoid |-> j - 1]
        ELSE a1

\* A scan whose Gaussian threshold is inclusive.
VoidStepInclusive(acc, j, p) ==
    LET v == cat[j]
        a1 == IF v.edgev = 0 /\ QNum(v, p) <= 3 * QDen(v)
              THEN [nevN |-> ExpVal(v.nev, QNum(v, p), QDen(v)), FvN |-> v.Fv,
                    hitvoid |-> j]
              ELSE acc
    IN  IF v.edgev = 1 /\ QNum(v, p) <= QDen(v)
        THEN [nevN |-> Num(v.nev), FvN |-> v.Fv, hitvoid |-> j]
        ELSE a1

\* A loop body that takes every edge flag other than 0 for a hard edge.
VoidStepAnyFlag(acc, j, p) ==
    LET v == cat[j]
        a1 == IF v.edgev = 0 /\ QNum(v, p) < 3 * QDen(v)
              THEN [nevN |-> ExpVal(v.nev, QNum(v, p), QDen(v)), FvN |-> v.Fv,
                    hitvoid |-> j]
              ELSE acc
    IN  IF v.edgev # 0 /\ QNum(v, p) <= QDen(v)
        THEN [nevN |-> Num(v.nev), FvN |-> v.Fv, hitvoid |-> j]
        ELSE a1

\* One iteration of the loop of _nevoidN_jit: two independent ifs, each
\* overwriting the running result.
VoidStep(acc, j, p) ==
    LET v == cat[j]
        a1 == IF v.edgev = 0 /\ QNum(v, p) < 3 * QDen(v)
              THEN [nevN |-> ExpVal(v.nev, QNum(v, p), QDen(v)), FvN |-> v.Fv,
                    hitvoid |-> j]
              ELSE acc
    IN  IF v.edgev = 1 /\ QNum(v, p) <= QDen(v)
        THEN [nevN |-> Num(v.nev), FvN |-> v.Fv, hitvoid |-> j]
        ELSE a1

RECURSIVE ScanVoids(_, _)
ScanVoids(p, n) == IF n = 0 THEN NoHit ELSE VoidStep(ScanVoids(p, n - 1), n, p)

\* _nevoidN_jit: the loop, then wvoid from hitvoid.
nevoidN_jit(p) ==
    LET r == ScanVoids(p, nvoids)
    IN  [nevN |-> r.nevN, FvN |-> r.FvN, hitvoid |-> r.hitvoid,
         wvoid |-> IF r.hitvoid # 0 THEN 1 ELSE 0, scanned |-> TRUE]

\* nevoidN: zeros at once when no void is configured, else the loop.
nevoidN(p) ==
    IF nvoids = 0
    THEN [nevN |-> Num(0), FvN |-> 0, hitvoid |-> 0, wvoid |-> 0, scanned |-> FALSE]
    ELSE nevoidN_jit(p)

\* A batched step that never overwrites a position already hit.
VecStepFirstWins(acc, j, pts) ==
    LET v == cat[j]
    IN  [i \in 1..Len(pts) |->
            IF acc[i].hitvoid = 0 THEN VoidStep(acc[i], j, pts[i]) ELSE acc[i]]

\* One iteration of the loop of nevoidN_vec: if / elif on the edge flag,
\* np.where(mask, new, old) on each of the three arrays.
VecStep(acc, j, pts) ==
    LET v == cat[j]
    IN  IF v.edgev = 0
        THEN [i \in 1..Len(pts) |->
                 LET mask == QNum(v, pts[i]) < 3 * QDen(v)
                 IN  [nevN    |-> IF mask THEN ExpVal(v.nev, QNum(v, pts[i]), QDen(v))
                                          ELSE acc[i].nevN,
                      FvN     |-> IF mask THEN v.Fv ELSE acc[i].FvN,
                      hitvoid |-> IF mask THEN j ELSE acc[i].hitvoid]]
        ELSE IF v.edgev = 1
        THEN [i \in 1..Len(pts) |->
                 LET mask == QNum(v, pts[i]) <= QDen(v)
                 IN  [nevN    |-> IF mask THEN Num(v.nev) ELSE acc[i].nevN,
                      FvN     |-> IF mask THEN v.Fv ELSE acc[i].FvN,
                      hitvoid |-> IF mask THEN j ELSE acc[i].hitvoid]]
        ELSE acc

RECURSIVE ScanVoidsVec(_, _)
ScanVoidsVec(pts, n) ==
    IF n = 0 THEN [i \in 1..Len(pts) |-> NoHit]
    ELSE VecStep(ScanVoidsVec(pts, n - 1), n, pts)

\* nevoidN_vec: zero arrays when no void is configured, else the loop over
\* voids, then wvoid_v = (hitvoid_v != 0).
nevoidN_vec(pts) ==
    IF nvoids = 0
    THEN [i \in 1..Len(pts) |->
             [nevN |-> Num(0), FvN |-> 0, hitvoid |-> 0, wvoid |-> 0, scanned |-> FALSE]]
    ELSE LET r == ScanVoidsVec(pts, nvoids)
         IN  [i \in 1..Len(pts) |->
                 [nevN |-> r[i].nevN, FvN |-> r[i].FvN, hitvoid |-> r[i].hitvoid,
                  wvoid |-> IF r[i].hitvoid # 0 THEN 1 ELSE 0, scanned |-> TRUE]]

----------------------------------------------------------------------------
(* Inputs of the void scan *)

\* Void geometries: a unit sphere at either of two centres, and an
\* ellipsoid of major axis 2 turned by 90 degrees about z (thvz), so that
\* its major axis lies along y; the cosines and sines of the two rotation
\* angles are then integers.
Sphere(cx) == [xv |-> cx, aav |-> 1, c2 |-> 1, s2 |-> 0]
LongY == [xv |-> 0, aav |-> 2, c2 |-> 0, s2 |-> 1]

VoidRecord(g, e, n, f) ==
    [xv |-> g.xv, yv |-> 0, zv |-> 0, nev |-> n, Fv |-> f,
     aav |-> g.aav, bbv |-> 1, ccv |-> 1, edgev |-> e,
     c1 |-> 1, s1 |-> 0, c2 |-> g.c2, s2 |-> g.s2]

\* Catalogue records: Gaussian (edgev 0) and hard-edge (edgev 1) voids, and
\* one record whose edge flag is neither.
VoidChoices ==
    { VoidRecord(Sphere(cx), e, nf[1], nf[2]) :
        cx \in {0, 2}, e \in {0, 1}, nf \in {<<2, 3>>, <<5, 7>>} }
    \cup { VoidRecord(LongY, e, 4, 1) : e \in {0, 1} }
    \cup { VoidRecord(Sphere(0), 2, 9, 9) }

Catalogues == UNION { [1..n -> VoidChoices] : n \in 0..MaxVoids }

\* Query points: the two centres, and points where q is 1, 9/4, 3, 4 or 8
\* for the geometries above.
Points ==
    { [x |-> 0, y |-> 0, z |-> 0], [x |-> 2, y |-> 0, z |-> 0],
      [x |-> 1, y |-> 0, z |-> 0], [x |-> 1, y |-> 1, z |-> 1],
      [x |-> 0, y |-> 2, z |-> 0] }

Batches == UNION { [1..n -> Points] : n \in 1..MaxBatch }

NoCall == [kind |-> "none", pts |-> <<>>, out |-> <<>>]

----------------------------------------------------------------------------
(* Parameter sets and config_nemod.set_model *)

PresetNames == {"ne2001", "ne2025"}

\* Dgal['n1h1'] of the two presets, in units of 1e-4.
N1H1_NE2001 == 330
N1H1_NE2025 == 275

\* The Galactic-centre parameters a parameter file may hold: the centre on
\* the x = 0, z = 0 axis at y = ygc, radius rgc, height hgc.
GcChoices == { [ygc |-> yg, rgc |-> rg] : yg \in {0, 3}, rg \in {1, 3} }

PresetRecord(name, gc) ==
    [n1h1  |-> IF name = "ne2001" THEN N1H1_NE2001 ELSE N1H1_NE2025,
     n2    |-> IF name = "ne2001" THEN 90 ELSE 80,
     xgc   |-> 0, ygc |-> gc.ygc, zgc |-> 0, rgc |-> gc.rgc, hgc |-> 2,
     negc0 |-> IF name = "ne2001" THEN 10 ELSE 12,
     Fgc0  |-> IF name = "ne2001" THEN 6 ELSE 8]

PresetChoices ==
    { [m \in PresetNames |-> PresetRecord(m, IF m = "ne2001" THEN g1 ELSE g2)] :
        g1 \in GcChoices, g2 \in GcChoices }

DefaultPresets ==
    [m \in PresetNames |-> PresetRecord(m, [ygc |-> 0, rgc |-> 1])]

\* The name which_model.inp holds for a preset.
FileName(m) == IF m = "ne2001" THEN "NE2001" ELSE "NE2025"
ModelOfFile(f) == IF f = "NE2001" THEN "ne2001" ELSE "ne2025"

\* set_model that leaves the flag of the other preset as it was.
LoadConfigStaleFlag(m) ==
    [eval_NE2001 |-> (m = "ne2001") \/ cfg.eval_NE2001,
     eval_NE2025 |-> (m = "ne2025") \/ cfg.eval_NE2025,
     par |-> presets[m]]

\* The globals of config_nemod once preset m is loaded: the two flags and the
\* coefficients read from that preset's parameter files.
LoadConfig(m) ==
    [eval_NE2001 |-> (m = "ne2001"),
     eval_NE2025 |-> (m = "ne2025"),
     par |-> presets[m]]

\* "from config_nemod import *" at import of density_components, and the
\* "def ne_gc(x, y, z, absymax=2*rgc)" evaluated then.
ImportDc(c) == [par |-> c.par, ne_gc_absymax |-> 2 * c.par.rgc]

\* set_model hands the new globals to the modules that imported them; the
\* default of a function argument is not a module global and stays.
Propagate(d, c) == [d EXCEPT !.par = c.par]

----------------------------------------------------------------------------
(* Spiral-arm tables of config_nemod, and galaxy_model.py *)

\* CubicSpline(th, r): the table it interpolates.
RadiusSpline(th, r) == [th |-> th, r |-> r]

\* armsplines: None before setup_spiral_arms has run, else its list.
NoSplines      == [given |-> FALSE, list |-> <<>>]
Prebuilt(list) == [given |-> TRUE, list |-> list]

\* The arm globals of config_nemod under preset m.  Angles are in units of
\* dthfine; arm j is sampled at th1[j][i] = start + (i-1)*FineDiv with radius
\* r1[j][i].  Darmmap gives the legacy number of each arm; Dgal holds the
\* per-arm factors under the legacy numbers and the global scalars.
ArmGlobals(m) ==
  LET th1 == << [i \in 1..NCoarse |-> 0 + (i - 1) * FineDiv],
                [i \in 1..NCoarse |-> 8 + (i - 1) * FineDiv],
                [i \in 1..NCoarse |-> 16 + (i - 1) * FineDiv] >>
      r1  == << [i \in 1..NCoarse |-> 2 + (i \div 2)],
                [i \in 1..NCoarse |-> 2 + (i \div 3)],
                [i \in 1..NCoarse |-> 1 + (i \div 2)] >>
  IN
    [th1     |-> th1,
     r1      |-> r1,
     Darmmap |-> <<1, 3, 2>>,
     warm    |-> IF m = "ne2001" THEN <<1, 2, 1>> ELSE <<2, 1, 1>>,
     harm    |-> IF m = "ne2001" THEN <<1, 1, 2>> ELSE <<1, 2, 2>>,
     narm    |-> IF m = "ne2001" THEN <<1, 3, 2>> ELSE <<2, 3, 1>>,
     wa      |-> IF m = "ne2001" THEN 1 ELSE 2,
     Aa      |-> IF m = "ne2001" THEN 4 ELSE 3,
     ha      |-> 1,
     Fa      |-> IF m = "ne2001" THEN 5 ELSE 6,
     na      |-> IF m = "ne2001" THEN 3 ELSE 4,
     armsplines |-> IF m = "ne2001" THEN NoSplines
                    ELSE Prebuilt([j \in 1..3 |-> RadiusSpline(th1[j], r1[j])])]

\* The fields of a GalaxyModel in the order _setup assigns them.
SetupOrder ==
    << "narms", "Ncoarse", "arm_radius_splines", "arm_index",
       "warm", "harm", "narm", "wa", "Aa", "ha", "Fa", "na" >>

\* _setup taking the prebuilt armsplines whenever there are any.
SetupFieldAnyPrebuilt(f, g) ==
    LET narms == Len(g.r1)
    IN  CASE f = "narms"   -> narms
          [] f = "Ncoarse" -> Len(g.r1[1])
          [] f = "arm_radius_splines" ->
                 IF g.armsplines.given
                 THEN g.armsplines.list
                 ELSE [j \in 1..narms |-> RadiusSpline(g.th1[j], g.r1[j])]
          [] f = "arm_index" -> [j \in 1..narms |-> g.Darmmap[j]]
          [] f = "warm" -> [j \in 1..narms |-> g.warm[g.Darmmap[j]]]
          [] f = "harm" -> [j \in 1..narms |-> g.harm[g.Darmmap[j]]]
          [] f = "narm" -> [j \in 1..narms |-> g.narm[g.Darmmap[j]]]
          [] f = "wa" -> g.wa
          [] f = "Aa" -> g.Aa
          [] f = "ha" -> g.ha
          [] f = "Fa" -> g.Fa
          [] f = "na" -> g.na

\* The value _setup assigns to field f from the config globals g it imported:
\* the arm count and sample count are the shape of the coarse samples; the
\* splines are the prebuilt armsplines when there is one per arm, else
\* rebuilt from th1 and r1; the per-arm factors are looked up under the
\* legacy number of each arm.
SetupField(f, g) ==
    LET narms == Len(g.r1)
    IN  CASE f = "narms"   -> narms
          [] f = "Ncoarse" -> Len(g.r1[1])
          [] f = "arm_radius_splines" ->
                 IF g.armsplines.given /\ Len(g.armsplines.list) = narms
                 THEN g.armsplines.list
                 ELSE [j \in 1..narms |-> RadiusSpline(g.th1[j], g.r1[j])]
          [] f = "arm_index" -> [j \in 1..narms |-> g.Darmmap[j]]
          [] f = "warm" -> [j \in 1..narms |-> g.warm[g.Darmmap[j]]]
          [] f = "harm" -> [j \in 1..narms |-> g.harm[g.Darmmap[j]]]
          [] f = "narm" -> [j \in 1..narms |-> g.narm[g.Darmmap[j]]]
          [] f = "wa" -> g.wa
          [] f = "Aa" -> g.Aa
          [] f = "ha" -> g.ha
          [] f = "Fa" -> g.Fa
          [] f = "na" -> g.na

\* GalaxyModel() / refresh() run to the end.
SetupAll(g) ==
    [f \in { SetupOrder[i] : i \in 1..Len(SetupOrder) } |-> SetupField(f, g)]

\* Parameter bundles as _setup may find them in config_nemod.  Defects names
\* the ways the per-arm fields of a bundle may disagree with the arm count of
\* its coarse samples: a spline list, an arm map or a multiplier set with one
\* entry too few or too many.
Defects ==
    { "none", "splines_short", "splines_long", "map_short", "map_long",
      "factors_short", "factors_long" }

\* All but the last entry of a list, and the list with its last entry twice.
Shorter(q) == SubSeq(q, 1, Len(q) - 1)
Longer(q)  == Append(q, q[Len(q)])

\* The globals g cut down to coarse samples of n arms, numbered 1..n in the
\* legacy numbering.
FirstArms(g, n) ==
    [g EXCEPT !.th1 = SubSeq(@, 1, n), !.r1 = SubSeq(@, 1, n),
              !.Darmmap = [j \in 1..n |-> j],
              !.warm = SubSeq(@, 1, n), !.harm = SubSeq(@, 1, n),
              !.narm = SubSeq(@, 1, n),
              !.armsplines = IF @.given THEN Prebuilt(SubSeq(@.list, 1, n))
                             ELSE @]

\* The globals g with defect d.
WithDefect(g, d) ==
    LET n     == Len(g.r1)
        built == [j \in 1..n |-> RadiusSpline(g.th1[j], g.r1[j])]
    IN  CASE d = "none"          -> g
          [] d = "splines_short" -> [g EXCEPT !.armsplines = Prebuilt(Shorter(built))]
          [] d = "splines_long"  -> [g EXCEPT !.armsplines = Prebuilt(Longer(built))]
          [] d = "map_short"     -> [g EXCEPT !.Darmmap = Shorter(@)]
          [] d = "map_long"      -> [g EXCEPT !.Darmmap = Append(@, n + 1)]
          [] d = "factors_short" ->
                 [g EXCEPT !.warm = Shorter(@), !.harm = Shorter(@),
                           !.narm = Shorter(@)]
          [] d = "factors_long"  ->
                 [g EXCEPT !.warm = Longer(@), !.harm = Longer(@),
                           !.narm = Longer(@)]

\* The per-arm fields of g disagree in length with the arm count of its
\* coarse samples.
Malformed(g) ==
    LET n == Len(g.r1)
    IN  \/ g.armsplines.given /\ Len(g.armsplines.list) # n
        \/ Len(g.th1) # n
        \/ Len(g.Darmmap) # n
        \/ Len(g.warm) # n \/ Len(g.harm) # n \/ Len(g.narm) # n

\* The exception the assignment of field f raises on globals g ("" when it
\* raises none): Darmmap[str(j)] and Dgal['warm' + str(jj)] are dictionary
\* lookups, and a missing key is a KeyError.  Nothing else in _setup looks at
\* a length.
SetupRaises(f, g) ==
    LET narms == Len(g.r1)
    IN  IF f = "arm_index" /\ Len(g.Darmmap) < narms THEN "KeyError"
        ELSE IF /\ f \in {"warm", "harm", "narm"}
                /\ \E j \in 1..narms : g.Darmmap[j] \notin DOMAIN g[f]
        THEN "KeyError"
        ELSE ""

RECURSIVE SetupFrom(_, _, _)
\* _setup from its i-th assignment on, on the instance inst: the assignments
\* are made one after the other on the instance itself, and an exception
\* leaves the ones already made.
SetupFrom(inst, g, i) ==
    IF i > Len(SetupOrder) THEN [model |-> inst, raised |-> ""]
    ELSE LET f == SetupOrder[i]
         IN  IF SetupRaises(f, g) # ""
             THEN [model |-> inst, raised |-> SetupRaises(f, g)]
             ELSE SetupFrom([inst EXCEPT ![f] = SetupField(f, g)], g, i + 1)

\* An instance before __init__ has assigned anything.
Unbuilt == [f \in { SetupOrder[i] : i \in 1..Len(SetupOrder) } |-> <<>>]

\* The attributes of the model ne_arms_ne2001p reads, in the order it first
\* reads them (lines 46, 70-73, 89, 97, 118, 121, 150, 178).
ReadOrder ==
    << "narms", "arm_index", "warm", "harm", "narm",
       "arm_radius_splines", "wa", "Aa", "ha", "na", "Fa" >>

----------------------------------------------------------------------------
(* ne_arms.py *)

\* Angles are counted in steps of dthfine, 24 steps to the turn.  Lengths
\* come on two grids: the coarse samples and the query point in units of
\* 1/40 kpc, the refined arm position in units of 1/(40 * FineDiv^3) kpc, so
\* that the interpolated radius stays a whole number.

\* 20 * sin and 20 * cos of an angle.
SinTable == <<0, 5, 10, 14, 17, 19, 20, 19, 17, 14, 10, 5, 0>>
Sin(a) == LET m == a % 24 IN IF m <= 12 THEN SinTable[m + 1] ELSE -SinTable[m - 11]
Cos(a) == Sin(a + 6)

Cube(n) == n * n * n

\* np.argmin over the indices lo..hi of f: the first index of the minimum.
ArgMinFirst(f, lo, hi) ==
    CHOOSE i \in lo..hi :
        \A i2 \in lo..hi : f[i] <= f[i2] /\ (i2 < i => f[i2] > f[i])

\* CubicSpline(nodes, ys)(t) for equally spaced nodes, FineDiv steps apart:
\* the value, times 2*FineDiv^3, at k steps past node s.  The interpolant is
\* the cubic through ys[s], ys[s+1] with central-difference slopes (the
\* end slopes are one-sided): it passes through the samples, depends on
\* nothing but nodes and ys, and treats each column of a 2-D ys on its own,
\* which is what the callers rely on.
Interp(ys, s, k) ==
    LET n  == Len(ys)
        y1 == ys[s]
        y2 == ys[s + 1]
        y0 == IF s > 1 THEN ys[s - 1] ELSE 2 * y1 - y2
        y3 == IF s + 2 <= n THEN ys[s + 2] ELSE 2 * y2 - y1
    IN  2 * Cube(FineDiv) * y1
        + FineDiv * FineDiv * k * (y2 - y0)
        + FineDiv * k * k * (2 * y0 - 5 * y1 + 4 * y2 - y3)
        + k * k * k * (3 * y1 - y0 - 3 * y2 + y3)

\* A spline evaluated at angle th inside its table.
SplineAt(spl, th) ==
    LET n == Len(spl.th)
        t == th - spl.th[1]
        s == IF t \div FineDiv + 1 <= n - 1 THEN t \div FineDiv + 1 ELSE n - 1
    IN  Interp(spl.r, s, t - (s - 1) * FineDiv)

\* coarse_arms[0][j][i] and coarse_arms[1][j][i] of the config globals g.
CoarseX(g, j, i) == -(2 * g.r1[j][i] * Sin(g.th1[j][i]))
CoarseY(g, j, i) == 2 * g.r1[j][i] * Cos(g.th1[j][i])

\* A query point is given by its Galactocentric angle th (from +y, towards
\* -x), twice its cylindrical radius rh, and z.  x = -r sin th, y = r cos th.
PointX(p) == -(p.rh * Sin(p.th))
PointY(p) == p.rh * Cos(p.th)

\* np.rad2deg(np.arctan2(-x, y)), raised by 360 when negative.
thxydeg(p) == 15 * (p.th % 24)

\* dsq_coarse[j]: squared distance from the point to each coarse sample.
dsq_coarse(g, j, p) ==
    [i \in 1..Len(g.r1[j]) |->
        Sq(CoarseX(g, j, i) - PointX(p)) + Sq(CoarseY(g, j, i) - PointY(p))]

\* index_dsqmin[j] (counted from 1).
index_dsqmin(g, j, p) == ArgMinFirst(dsq_coarse(g, j, p), 1, Len(g.r1[j]))

\* nspline2 = int((nfinespline-1)/2)
nspline2(nfinespline) == (nfinespline - 1) \div 2

\* ind1 for coarse minimum k: range(max(0, k-nspline2-1),
\* min(k+nspline2+1, Ncoarse)), as first and last index counted from 1.
ind1(k, nfinespline, Ncoarse) ==
    [lo |-> IF k - nspline2(nfinespline) - 1 >= 1
            THEN k - nspline2(nfinespline) - 1 ELSE 1,
     hi |-> IF k + nspline2(nfinespline) <= Ncoarse
            THEN k + nspline2(nfinespline) ELSE Ncoarse]

\* Lines 84-87: spline through the window's samples, np.arange(first node,
\* last node, dthfine) (the last node is left out), first minimum.
\* col is dsq over the window, thlo the angle of its first node.
FineMin(col, thlo) ==
    LET nfine == (Len(col) - 1) * FineDiv
        fine_vals == [t \in 1..nfine |->
                         Interp(col, (t - 1) \div FineDiv + 1, (t - 1) % FineDiv)]
    IN  thlo + ArgMinFirst(fine_vals, 1, nfine) - 1

\* dsq restricted to the window w.
Column(dsq, w) == [i \in 1..(w.hi - w.lo + 1) |-> dsq[w.lo + i - 1]]

\* Lines 89-95: the arm position at thjmin and the squared distance to it.
dminSq(mdl, j, p, thjmin) ==
    LET rjmin == SplineAt(mdl.arm_radius_splines[j], thjmin)
        xjmin == -(rjmin * Sin(thjmin))
        yjmin == rjmin * Cos(thjmin)
    IN  Sq(PointX(p) * Cube(FineDiv) - xjmin)
        + Sq(PointY(p) * Cube(FineDiv) - yjmin)

\* A length in kpc on the grid of dminSq.
Fine(len) == len * 40 * Cube(FineDiv)

\* The rescaling with the angle differences left negative (no "+= 360").
RescaleNoWrap(jj, p) ==
    LET test3 == thxydeg(p) - 290
        test2 == thxydeg(p) - 340
    IN  IF jj = 3 /\ 0 <= test3 /\ test3 < 363 - 290 THEN <<"arm3", test3>>
        ELSE IF jj = 2 /\ 0 <= test2 /\ test2 < 370 - 340 THEN <<"arm2", test2>>
        ELSE <<"none", 0>>

\* Lines 128-148: which amplitude rescaling applies at the point for legacy
\* arm jj.
Rescale(jj, p) ==
    LET test3 == IF thxydeg(p) - 290 < 0 THEN thxydeg(p) - 290 + 360
                 ELSE thxydeg(p) - 290
        test2 == IF thxydeg(p) - 340 < 0 THEN thxydeg(p) - 340 + 360
                 ELSE thxydeg(p) - 340
    IN  IF jj = 3 /\ 0 <= test3 /\ test3 < 363 - 290 THEN <<"arm3", test3>>
        ELSE IF jj = 2 /\ 0 <= test2 /\ test2 < 370 - 340 THEN <<"arm2", test2>>
        ELSE <<"none", 0>>

\* config_nemod.rsun, the Sun's Galactocentric radius, in the unit of r1
\* (8.5 kpc; the arm scale Aa of the presets lies beyond it).
rsun == 2

\* The arm term with the radial taper starting at the Sun's radius.
ArmTermTaperAtSun(mdl, j, p, d2) ==
    [arm     |-> j,
     dminSq  |-> d2,
     Wa      |-> mdl.wa * mdl.warm[j],
     taper   |-> Sq(PointX(p)) + Sq(PointY(p)) > Sq(40 * rsun),
     Aa      |-> mdl.Aa,
     z       |-> p.z,
     Ha      |-> mdl.ha * mdl.harm[j],
     rescale |-> Rescale(mdl.arm_index[j], p),
     narm    |-> mdl.narm[j],
     na      |-> mdl.na]

\* ga * narm[j] * model.na of lines 114-150, kept as its factors.
ArmTerm(mdl, j, p, d2) ==
    [arm     |-> j,
     dminSq  |-> d2,
     Wa      |-> mdl.wa * mdl.warm[j],
     taper   |-> Sq(PointX(p)) + Sq(PointY(p)) > Sq(40 * mdl.Aa),
     Aa      |-> mdl.Aa,
     z       |-> p.z,
     Ha      |-> mdl.ha * mdl.harm[j],
     rescale |-> Rescale(mdl.arm_index[j], p),
     narm    |-> mdl.narm[j],
     na      |-> mdl.na]

\* The loop state of ne_arms_ne2001p before arm 0.  fits records, per arm,
\* the window and thjmin the loop computed; inrange the arms that passed the
\* test of line 107.
ArmsStart ==
    [dmin_min |-> 0, whicharm_spiralmodel |-> 0, nea |-> <<>>,
     fits |-> <<>>, inrange |-> {}]

\* The loop body with the range test on the arm's own width Wa.
ArmStepOwnWidth(acc, mdl, j, p, d2, fit) ==
    LET dmm     == IF j = 1 THEN d2 ELSE acc.dmin_min
        near    == d2 < 9 * Sq(Fine(mdl.wa * mdl.warm[j]))
        closest == near /\ d2 <= dmm
    IN  [dmin_min |-> IF closest THEN d2 ELSE dmm,
         whicharm_spiralmodel |->
             IF closest THEN j ELSE acc.whicharm_spiralmodel,
         nea      |-> IF near THEN Append(acc.nea, ArmTerm(mdl, j, p, d2))
                      ELSE acc.nea,
         fits     |-> Append(acc.fits, fit),
         inrange  |-> IF near THEN acc.inrange \cup {j} ELSE acc.inrange]

\* Lines 105-150 for arm j with squared distance d2, on loop state acc.
ArmStep(acc, mdl, j, p, d2, fit) ==
    LET dmm     == IF j = 1 THEN d2 ELSE acc.dmin_min
        near    == d2 < 9 * Sq(Fine(mdl.wa))
        closest == near /\ d2 <= dmm
    IN  [dmin_min |-> IF closest THEN d2 ELSE dmm,
         whicharm_spiralmodel |->
             IF closest THEN j ELSE acc.whicharm_spiralmodel,
         nea      |-> IF near THEN Append(acc.nea, ArmTerm(mdl, j, p, d2))
                      ELSE acc.nea,
         fits     |-> Append(acc.fits, fit),
         inrange  |-> IF near THEN acc.inrange \cup {j} ELSE acc.inrange]

\* Lines 82-87 for arm j of one point.
ArmFit(g, j, p, nfinespline, Ncoarse) ==
    LET dsq == dsq_coarse(g, j, p)
        w   == ind1(index_dsqmin(g, j, p), nfinespline, Ncoarse)
    IN  [lo |-> w.lo, hi |-> w.hi,
         thjmin |-> FineMin(Column(dsq, w), g.th1[j][w.lo])]

RECURSIVE ArmsLoop(_, _, _, _, _, _)
ArmsLoop(g, mdl, p, nfinespline, Ncoarse, n) ==
    IF n = 0 THEN ArmsStart
    ELSE LET fit == ArmFit(g, n, p, nfinespline, Ncoarse)
         IN  ArmStep(ArmsLoop(g, mdl, p, nfinespline, Ncoarse, n - 1),
                     mdl, n, p, dminSq(mdl, n, p, fit.thjmin), fit)

\* Lines 160-189: the return value, with the loop's record of windows,
\* angles and in-range arms alongside.
ArmsResult(acc, Farm, whicharm) ==
    [nea |-> acc.nea, Farm |-> Farm, whicharm |-> whicharm,
     fits |-> acc.fits, inrange |-> acc.inrange]

\* The evaluator returning Fa scaled by a multiplier of the designated arm
\* (the "intended value" Fa * farm_j of line 164, warm standing in for farm).
ne_arms_PerArmFarm(g, mdl, p, nfinespline, Ncoarse) ==
    LET acc == ArmsLoop(g, mdl, p, nfinespline, Ncoarse, mdl.narms)
    IN  IF acc.whicharm_spiralmodel = 0
        THEN ArmsResult(acc, 0, 0)
        ELSE ArmsResult(acc, mdl.Fa * mdl.warm[acc.whicharm_spiralmodel],
                        g.Darmmap[acc.whicharm_spiralmodel])

\* ne_arms_ne2001p(x, y, z, Ncoarse, dthfine, nfinespline, model): g are the
\* module's config globals (coarse_arms, th1, Darmmap), mdl the model.
ne_arms_ne2001p(g, mdl, p, nfinespline, Ncoarse) ==
    LET acc == ArmsLoop(g, mdl, p, nfinespline, Ncoarse, mdl.narms)
    IN  IF acc.whicharm_spiralmodel = 0
        THEN ArmsResult(acc, 0, 0)
        ELSE ArmsResult(acc, mdl.Fa, g.Darmmap[acc.whicharm_spiralmodel])

RECURSIVE SortedSeq(_)
\* The members of a set of numbers in rising order (np.unique, np.where).
SortedSeq(S) ==
    IF S = {} THEN <<>>
    ELSE LET m == CHOOSE a \in S : \A b \in S : a <= b
         IN  <<m>> \o SortedSeq(S \ {m})

\* The group of coarse minimum k with each column's minimum handed to the
\* position at the mirrored place of pos_k.
GroupFitMirrored(g, j, pts, k, pos_k, nfinespline, Ncoarse, thjmin_j) ==
    LET w    == ind1(k, nfinespline, Ncoarse)
        n_k  == Len(pos_k)
        col(c) == Column(dsq_coarse(g, j, pts[pos_k[c]]), w)
        mins == [c \in 1..n_k |-> FineMin(col(c), g.th1[j][w.lo])]
        place(i) == CHOOSE c \in 1..n_k : pos_k[c] = i
    IN  [i \in DOMAIN thjmin_j |->
            IF \E c \in 1..n_k : pos_k[c] = i
            THEN [lo |-> w.lo, hi |-> w.hi,
                  thjmin |-> mins[n_k + 1 - place(i)]]
            ELSE thjmin_j[i]]

\* Lines 251-270: the group of coarse minimum k on arm j.  pos_k are the
\* batch positions of the group; their columns of dsq over the group's
\* window are refined together (alone when n_k = 1) and each minimum is
\* stored at its own position of thjmin_j.
GroupFit(g, j, pts, k, pos_k, nfinespline, Ncoarse, thjmin_j) ==
    LET w    == ind1(k, nfinespline, Ncoarse)
        n_k  == Len(pos_k)
        col(c) == Column(dsq_coarse(g, j, pts[pos_k[c]]), w)
        mins == IF n_k = 1
                THEN <<FineMin(col(1), g.th1[j][w.lo])>>
                ELSE [c \in 1..n_k |-> FineMin(col(c), g.th1[j][w.lo])]
        place(i) == CHOOSE c \in 1..n_k : pos_k[c] = i
    IN  [i \in DOMAIN thjmin_j |->
            IF \E c \in 1..n_k : pos_k[c] = i
            THEN [lo |-> w.lo, hi |-> w.hi, thjmin |-> mins[place(i)]]
            ELSE thjmin_j[i]]

RECURSIVE GroupsLoop(_, _, _, _, _, _, _, _)
\* Line 250: the groups of arm j, in rising order of k; idx is
\* index_dsqmin[j], ks is np.unique of it, n the number of groups done.
\* thjmin_j starts as np.empty.
GroupsLoop(g, j, pts, idx, ks, nfinespline, Ncoarse, n) ==
    IF n = 0 THEN [i \in 1..Len(pts) |-> [lo |-> 0, hi |-> 0, thjmin |-> 0]]
    ELSE LET pos_k == SortedSeq({i \in 1..Len(pts) : idx[i] = ks[n]})
         IN  GroupFit(g, j, pts, ks[n], pos_k, nfinespline, Ncoarse,
                      GroupsLoop(g, j, pts, idx, ks, nfinespline, Ncoarse, n - 1))

RECURSIVE ArmsLoopVec(_, _, _, _, _, _)
\* Lines 242-321: the arm loop on the arrays; each position's entry is
\* updated as np.where does, by the same rule as the per-point loop.
ArmsLoopVec(g, mdl, pts, nfinespline, Ncoarse, n) ==
    IF n = 0 THEN [i \in 1..Len(pts) |-> ArmsStart]
    ELSE LET prev == ArmsLoopVec(g, mdl, pts, nfinespline, Ncoarse, n - 1)
             idx  == [i \in 1..Len(pts) |-> index_dsqmin(g, n, pts[i])]
             ks   == SortedSeq({idx[i] : i \in 1..Len(pts)})
             fit  == GroupsLoop(g, n, pts, idx, ks, nfinespline, Ncoarse, Len(ks))
         IN  [i \in 1..Len(pts) |->
                 ArmStep(prev[i], mdl, n, pts[i],
                         dminSq(mdl, n, pts[i], fit[i].thjmin), fit[i])]

\* ne_arms_ne2001p_vec(xvec, yvec, zvec, Ncoarse, dthfine, nfinespline, model).
\* arm_tc_map[0] = 0, arm_tc_map[j+1] = model.arm_index[j].
ne_arms_ne2001p_vec(g, mdl, pts, nfinespline, Ncoarse) ==
    LET acc == ArmsLoopVec(g, mdl, pts, nfinespline, Ncoarse, mdl.narms)
    IN  [i \in 1..Len(pts) |->
            ArmsResult(acc[i],
                       IF acc[i].whicharm_spiralmodel # 0 THEN mdl.Fa ELSE 0,
                       IF acc[i].whicharm_spiralmodel = 0 THEN 0
                       ELSE mdl.arm_index[acc[i].whicharm_spiralmodel])]

----------------------------------------------------------------------------
(* dmdsm (dmdsm_dm2d, dmdsm_d2dm) and the NE2001 / NE2025 entry points *)

\* Distances are counted in fine steps ds_fine, the density in whole units,
\* DM and SM in density (squared) times fine steps.  The point found by
\* inverting a DM lies between grid points, so distances and integrals are
\* fractions [n, d] in lowest terms.
Rat(n, d) == LET g == GCD(Abs(n), d) IN [n |-> n \div g, d |-> d \div g]
RatInt(k) == [n |-> k, d |-> 1]
RatAdd(a, b) == Rat(a.n * b.d + b.n * a.d, a.d * b.d)
RatSub(a, b) == Rat(a.n * b.d - b.n * a.d, a.d * b.d)
RatMul(a, b) == Rat(a.n * b.n, a.d * b.d)
RatLe(a, b) == a.n * b.d <= b.n * a.d
RatLt(a, b) == a.n * b.d < b.n * a.d
Floor(a) == a.n \div a.d

\* The maximum distance of a walk, and the fine-sampling budget before the
\* target distance.
dmax == PathCoarse * StepRatio
FineWindow == StepRatio

\* Status codes of path_limit.
Blank == " "
DistLimited == "distance-limited"
DMLimited == "DM-limited"

\* The density along the ray at distance s: the field sampled at the grid
\* points, linear between them.
NeAt(prof, s) ==
    LET g == Floor(s)
    IN  IF s.d = 1 THEN RatInt(prof[g])
        ELSE RatAdd(RatInt(prof[g]),
                    RatMul(RatInt(prof[g + 1] - prof[g]), RatSub(s, RatInt(g))))

\* One panel of the trapezoidal rule for f between distances a and b.
Trapezoid(fa, fb, a, b) ==
    RatMul(RatMul(RatAdd(fa, fb), RatSub(b, a)), Rat(1, 2))

\* The accumulators after a step from l.pos to distance b.
Accumulate(l, b) ==
    LET fa == NeAt(l.prof, l.pos)
        fb == NeAt(l.prof, b)
    IN  [l EXCEPT !.pos = b,
                  !.dm = RatAdd(l.dm, Trapezoid(fa, fb, l.pos, b)),
                  !.sm = RatAdd(l.sm, Trapezoid(RatMul(fa, fa), RatMul(fb, fb),
                                                l.pos, b)),
                  !.series = Append(l.series, [s |-> l.pos, dm |-> l.dm,
                                               sm |-> l.sm])]

\* The end of the walk: status, and the distance and DM it returns.
Terminate(l, limit, dist, dm, sm) ==
    [l EXCEPT !.pc = "done", !.limit = limit, !.dist = dist, !.dm = dm,
              !.sm = sm]

\* Inverse mode that returns the stop after the target DM, with no
\* interpolation.
InvertAtStop(l) == Terminate(l, Blank, l.pos, l.target, l.sm)

\* Inverse mode, target DM reached between the last entry of the series and
\* l: the distance by linear interpolation of the cumulative DM; the target
\* DM is returned as given.
Invert(l) ==
    LET prev == l.series[Len(l.series)]
        frac == RatMul(RatSub(l.target, prev.dm),
                       [n |-> RatSub(l.dm, prev.dm).d, d |-> RatSub(l.dm, prev.dm).n])
        dist == RatAdd(prev.s, RatMul(frac, RatSub(l.pos, prev.s)))
        sm   == RatAdd(prev.sm, RatMul(frac, RatSub(l.sm, prev.sm)))
    IN  Terminate(l, Blank, dist, l.target, sm)

\* The next distance of the walk: a coarse step, a fine step inside the
\* fine-sampling budget of the target distance, or the last part of a step
\* up to the target.
NextStop(l) ==
    LET end == IF l.mode = "d2dm" /\ RatLe(l.target, RatInt(dmax))
               THEN l.target ELSE RatInt(dmax)
        p   == Floor(l.pos)
    IN  IF l.mode = "dm2d" THEN RatInt(p + StepRatio)
        ELSE IF p + StepRatio + FineWindow <= Floor(end) THEN RatInt(p + StepRatio)
        ELSE IF p + 1 <= Floor(end) THEN RatInt(p + 1)
        ELSE end

\* The walk that reports every end as reached.
StatusAlwaysBlank(l) ==
    IF l.mode = "dm2d"
    THEN IF RatLe(l.target, l.dm) THEN Invert(l)
         ELSE IF RatLe(RatInt(dmax), l.pos) \/ RatLe(RatInt(DMCeil), l.dm)
         THEN Terminate(l, Blank, l.pos, l.dm, l.sm)
         ELSE l
    ELSE IF l.pos = l.target \/ l.pos = RatInt(dmax) \/ RatLe(RatInt(DMCeil), l.dm)
         THEN Terminate(l, Blank, l.pos, l.dm, l.sm)
         ELSE l

\* After a step: the target is reached (blank), or a ceiling was hit before
\* it, or the walk goes on.  A ceiling ends the walk with the accumulators
\* as they stand.
Status(l) ==
    IF l.mode = "dm2d"
    THEN IF RatLe(l.target, l.dm) THEN Invert(l)
         ELSE IF RatLe(RatInt(dmax), l.pos)
         THEN Terminate(l, DistLimited, l.pos, l.dm, l.sm)
         ELSE IF RatLe(RatInt(DMCeil), l.dm)
         THEN Terminate(l, DMLimited, l.pos, l.dm, l.sm)
         ELSE l
    ELSE IF l.pos = l.target THEN Terminate(l, Blank, l.target, l.dm, l.sm)
         ELSE IF l.pos = RatInt(dmax)
         THEN Terminate(l, DistLimited, l.pos, l.dm, l.sm)
         ELSE IF RatLe(RatInt(DMCeil), l.dm)
         THEN Terminate(l, DMLimited, l.pos, l.dm, l.sm)
         ELSE l

\* The entry point that reads ndir as the specification words it: +1 for a
\* target distance, -1 for a target DM.
ModeOfSpecText(ndir) == IF ndir = 1 THEN "d2dm" ELSE "dm2d"

\* ne2001 / ne2025 (ldeg, bdeg, dmd, ndir): ndir = 1 takes dmd as a DM and
\* finds the distance, ndir = -1 takes it as a distance and finds the DM.
ModeOf(ndir) == IF ndir = 1 THEN "dm2d" ELSE "d2dm"

\* A walk before its first step.  back is the DM a round trip started from
\* (0 when the call is not the second leg of one).
StartWalk(prof, ndir, target, back) ==
    [pc |-> "march", prof |-> prof, ndir |-> ndir, mode |-> ModeOf(ndir),
     target |-> target, back |-> back,
     pos |-> RatInt(0), dm |-> RatInt(0), sm |-> RatInt(0), series |-> <<>>,
     limit |-> Blank, dist |-> RatInt(0)]

\* No walk: the ray with its density samples at the grid points 0..dmax.
NoWalk(prof) ==
    [pc |-> "idle", prof |-> prof, ndir |-> 0, mode |-> "none",
     target |-> RatInt(0), back |-> RatInt(0),
     pos |-> RatInt(0), dm |-> RatInt(0), sm |-> RatInt(0), series |-> <<>>,
     limit |-> Blank, dist |-> RatInt(0)]

----------------------------------------------------------------------------
(* density_components.py *)

\* ne_gc without the one-axis pre-check.
ne_gc_NoEarlyExit(p, absymax) ==
    LET g   == dc.par
        rr2 == Sq(p.x - g.xgc) + Sq(p.y - g.ygc)
        zz  == Abs(p.z - g.zgc)
    IN  IF rr2 > Sq(g.rgc) \/ zz > g.hgc
        THEN [ne |-> 0, F |-> 0, path |-> "box"]
        ELSE IF rr2 * Sq(g.hgc) + Sq(zz) * Sq(g.rgc) <= Sq(g.rgc) * Sq(g.hgc)
        THEN [ne |-> g.negc0, F |-> g.Fgc0, path |-> "inside"]
        ELSE [ne |-> 0, F |-> 0, path |-> "outside"]

\* ne_gc(x, y, z, absymax): the pre-check on |y|, the box test on the
\* radius rr = sqrt((x-xgc)^2 + (y-ygc)^2) and the height zz = |z-zgc|
\* (rr > rgc as rr^2 > rgc^2), then the ellipsoid test
\* (rr/rgc)^2 + (zz/hgc)^2 <= 1 over the common denominator.  path names
\* the return statement taken.
ne_gc(p, absymax) ==
    LET g   == dc.par
        rr2 == Sq(p.x - g.xgc) + Sq(p.y - g.ygc)
        zz  == Abs(p.z - g.zgc)
    IN  IF Abs(p.y) > absymax
        THEN [ne |-> 0, F |-> 0, path |-> "early"]
        ELSE IF rr2 > Sq(g.rgc) \/ zz > g.hgc
        THEN [ne |-> 0, F |-> 0, path |-> "box"]
        ELSE IF rr2 * Sq(g.hgc) + Sq(zz) * Sq(g.rgc) <= Sq(g.rgc) * Sq(g.hgc)
        THEN [ne |-> g.negc0, F |-> g.Fgc0, path |-> "inside"]
        ELSE [ne |-> 0, F |-> 0, path |-> "outside"]

\* The coefficients a call of ne_gc evaluates with.
GcUsed(absymax) ==
    [xgc |-> dc.par.xgc, ygc |-> dc.par.ygc, zgc |-> dc.par.zgc,
     rgc |-> dc.par.rgc, hgc |-> dc.par.hgc,
     negc0 |-> dc.par.negc0, Fgc0 |-> dc.par.Fgc0, absymax |-> absymax]

\* ne_outer and ne_inner pass the module's globals to their cores; the
\* amplitude coefficient of each is the one the result is proportional to.
ne_outer_used == [n1h1 |-> dc.par.n1h1]
ne_inner_used == [n2 |-> dc.par.n2]

\* Query points of ne_gc: centres, boundary points of the ellipsoids above,
\* points in the bounding box but outside the ellipsoid, points beyond the
\* height, and points with |y| beyond 2, 4 and 6.
GcPoints ==
    { [x |-> 0, y |-> 0, z |-> 0], [x |-> 0, y |-> 3, z |-> 0],
      [x |-> 1, y |-> 0, z |-> 0], [x |-> 0, y |-> 0, z |-> 2],
      [x |-> 0, y |-> 2, z |-> 2], [x |-> 0, y |-> 0, z |-> 3],
      [x |-> 0, y |-> 2, z |-> 0], [x |-> 0, y |-> 5, z |-> 0],
      [x |-> 1, y |-> 7, z |-> 3] }

\* The caller leaves absymax to its default or passes a value.
AbsymaxArgs == { [given |-> FALSE, v |-> 0], [given |-> TRUE, v |-> 1] }

NoDcCall == [kind |-> "none"]

-----------------------------------------------------------------------------
(* Non-finite coordinates in the density components *)

\* An IEEE double as the components see it: a finite grid value, NaN, or an
\* infinity with its sign in v.
Fin(v) == [k |-> "fin", v |-> v]
NaN    == [k |-> "nan", v |-> 0]
PInf   == [k |-> "inf", v |-> 1]
NInf   == [k |-> "inf", v |-> -1]

IsFinite(a) == a.k = "fin"

\* a - c and c * a for a finite constant c; 0 * inf is NaN.
FSubC(a, c) == IF a.k = "fin" THEN Fin(a.v - c) ELSE a
FMulC(c, a) ==
    IF a.k = "fin" THEN Fin(c * a.v)
    ELSE IF a.k = "nan" \/ c = 0 THEN NaN
    ELSE IF (c > 0) = (a.v > 0) THEN PInf ELSE NInf

\* a + b; inf + (-inf) is NaN.
FAdd(a, b) ==
    IF a.k = "nan" \/ b.k = "nan" THEN NaN
    ELSE IF a.k = "fin" /\ b.k = "fin" THEN Fin(a.v + b.v)
    ELSE IF a.k = "fin" THEN b
    ELSE IF b.k = "fin" THEN a
    ELSE IF a.v = b.v THEN a ELSE NaN

FSq(a)  == IF a.k = "fin" THEN Fin(Sq(a.v)) ELSE IF a.k = "nan" THEN NaN ELSE PInf
FAbs(a) == IF a.k = "fin" THEN Fin(Abs(a.v)) ELSE IF a.k = "nan" THEN NaN ELSE PInf

\* Comparisons with a finite constant: every comparison with NaN is False.
FGtC(a, c) == IF a.k = "fin" THEN a.v > c ELSE a.k = "inf" /\ a.v > 0
FLtC(a, c) == IF a.k = "fin" THEN a.v < c ELSE a.k = "inf" /\ a.v < 0
FLeC(a, c) == IF a.k = "fin" THEN a.v <= c ELSE a.k = "inf" /\ a.v < 0

\* The outcome of a call: raised names the exception ("" when the call
\* returns), ne the class of the density returned ("zero", "nan", or "value"
\* for any other finite number), vals the other values returned.
Returned(ne, vals) == [raised |-> "", ne |-> ne, vals |-> vals]
Raised(exc)        == [raised |-> exc, ne |-> "none", vals |-> <<>>]

\* ne_gc(x, y, z, absymax) on doubles: the same three tests as ne_gc above.
\* sqrt keeps NaN and +inf, so rr > rgc is decided on rr^2, and the
\* ellipsoid argument is NaN or inf as soon as one term is.
ne_gc_float(p, absymax) ==
    LET g   == dc.par
        rr2 == FAdd(FSq(FSubC(p.x, g.xgc)), FSq(FSubC(p.y, g.ygc)))
        zz  == FAbs(FSubC(p.z, g.zgc))
        arg == FAdd(FMulC(Sq(g.hgc), rr2), FMulC(Sq(g.rgc), FSq(zz)))
    IN  IF FGtC(FAbs(p.y), absymax)
        THEN Returned("zero", <<0, "early">>)
        ELSE IF FGtC(rr2, Sq(g.rgc)) \/ FGtC(zz, g.hgc)
        THEN Returned("zero", <<0, "box">>)
        ELSE IF FLeC(arg, Sq(g.rgc) * Sq(g.hgc))
        THEN Returned(IF g.negc0 = 0 THEN "zero" ELSE "value", <<g.Fgc0, "inside">>)
        ELSE Returned("zero", <<0, "outside">>)

\* The three rotated offsets and the numerator of q on doubles.
T1F(v, p) ==
    FAdd(FAdd(FMulC(cc12(v), FSubC(p.x, v.xv)), FMulC(v.s2, FSubC(p.y, v.yv))),
         FMulC(cs21(v), FSubC(p.z, v.zv)))
T2F(v, p) ==
    FAdd(FAdd(FMulC(-cs12(v), FSubC(p.x, v.xv)), FMulC(v.c2, FSubC(p.y, v.yv))),
         FMulC(-ss12(v), FSubC(p.z, v.zv)))
T3F(v, p) ==
    FAdd(FMulC(-v.s1, FSubC(p.x, v.xv)), FMulC(v.c1, FSubC(p.z, v.zv)))

QNumF(v, p) ==
    FAdd(FAdd(FMulC(Sq(v.bbv) * Sq(v.ccv), FSq(T1F(v, p))),
              FMulC(Sq(v.aav) * Sq(v.ccv), FSq(T2F(v, p)))),
         FMulC(Sq(v.aav) * Sq(v.bbv), FSq(T3F(v, p))))

\* One pass of the loop of _nevoidN_jit on doubles; hit is the void the
\* point is counted in so far.
VoidStepF(hit, j, p) ==
    LET v  == cat[j]
        a1 == IF v.edgev = 0 /\ FLtC(QNumF(v, p), 3 * QDen(v)) THEN j ELSE hit
    IN  IF v.edgev = 1 /\ FLeC(QNumF(v, p), QDen(v)) THEN j ELSE a1

RECURSIVE ScanVoidsF(_, _)
ScanVoidsF(p, n) == IF n = 0 THEN 0 ELSE VoidStepF(ScanVoidsF(p, n - 1), n, p)

\* nevoidN(x, y, z) on doubles: nevN, FvN, hitvoid, wvoid.
nevoidN_float(p) ==
    LET h == IF nvoids = 0 THEN 0 ELSE ScanVoidsF(p, nvoids)
    IN  IF h = 0 THEN Returned("zero", <<0, 0, 0>>)
        ELSE Returned("value", <<cat[h].Fv, h, 1>>)

\* A product of factors by class: NaN when a factor is NaN (also 0 * NaN),
\* else zero when a factor is zero, else some finite value.  No factor of the
\* disk terms is infinite.
FactorProduct(a, b) ==
    IF a = "nan" \/ b = "nan" THEN "nan"
    ELSE IF a = "zero" \/ b = "zero" THEN "zero" ELSE "value"

\* sech2(z/h) computed as 4 e / (1 + e)^2 with e = exp(-2 |z/h|): NaN for
\* NaN, e = 0 for either infinity.
Sech2Class(z) ==
    IF z.k = "nan" THEN "nan" ELSE IF z.k = "inf" THEN "zero" ELSE "value"

\* _ne_outer_jit: g1 = 0 when rr > A1 is True, else cos(pihalf rr / A1) /
\* suncos, which is NaN for a NaN radius.
ne_outer_float(p) ==
    LET rr2 == FAdd(FSq(p.x), FSq(p.y))
        g1  == IF rr2.k = "inf" THEN "zero"
               ELSE IF rr2.k = "nan" THEN "nan" ELSE "value"
    IN  Returned(FactorProduct(g1, Sech2Class(p.z)), <<"F1">>)

\* _ne_inner_jit: g2 starts at 0 and becomes exp(-rrarg) only when
\* rrarg < 10 is True, which it is not for a NaN or infinite radius.
ne_inner_float(p) ==
    LET rr2 == FAdd(FSq(p.x), FSq(p.y))
        g2  == IF rr2.k = "fin" THEN "value" ELSE "zero"
    IN  Returned(FactorProduct(g2, Sech2Class(p.z)), <<"F2">>)

\* ne_arms_ne2001p: a non-finite x or y makes dsq_coarse non-finite, and
\* CubicSpline refuses non-finite ordinates with a ValueError.  With x and y
\* finite the search runs as usual and z enters only sech2(z/Ha) of the arms
\* in range.  at is the position of the finite x and y in the form the arm
\* search above takes it.
ne_arms_float(g, mdl, p, at, nfinespline, Ncoarse) ==
    IF ~IsFinite(p.x) \/ ~IsFinite(p.y)
    THEN Raised("ValueError")
    ELSE LET r == ne_arms_ne2001p(g, mdl, at, nfinespline, Ncoarse)
         IN  IF r.inrange = {}
             THEN Returned("zero", <<r.Farm, r.whicharm>>)
             ELSE Returned(FactorProduct("value", Sech2Class(p.z)),
                           <<r.Farm, r.whicharm>>)

----------------------------------------------------------------------------
(* Actions *)

\* Evaluation is single-threaded and synchronous: a call is made when none
\* is outstanding, and its result stays in vcall / dcall until the caller
\* has taken it.
Idle == vcall.kind = "none" /\ dcall.kind = "none" /\ acall.kind = "none"

CallNevoidN ==
    \E p \in Points :
        /\ Idle
        /\ vcall' = [kind |-> "scalar", pts |-> <<p>>, out |-> <<nevoidN(p)>>]
        /\ UNCHANGED <<cat, cfgVars, model, acall, threadVars, los>>

CallNevoidNVec ==
    \E pts \in Batches :
        /\ Idle
        /\ vcall' = [kind |-> "vec", pts |-> pts, out |-> nevoidN_vec(pts)]
        /\ UNCHANGED <<cat, cfgVars, model, acall, threadVars, los>>

ReturnVoid ==
    /\ vcall.kind # "none"
    /\ vcall' = NoCall
    /\ UNCHANGED <<cat, cfgVars, model, acall, threadVars, los>>

CallNeGc ==
    \E p \in GcPoints, a \in AbsymaxArgs :
        LET absymax == IF a.given THEN a.v ELSE dc.ne_gc_absymax
        IN  /\ Idle
            /\ dcall' = [kind |-> "ne_gc", p |-> p, given |-> a.given,
                         absymax |-> absymax, out |-> ne_gc(p, absymax),
                         used |-> GcUsed(absymax)]
            /\ UNCHANGED <<voidVars, presets, whichfile, cfg, dc, lastSel, model, acall, threadVars, los>>

CallNeOuter ==
    /\ Idle
    /\ dcall' = [kind |-> "ne_outer", used |-> ne_outer_used]
    /\ UNCHANGED <<voidVars, presets, whichfile, cfg, dc, lastSel, model, acall, threadVars, los>>

CallNeInner ==
    /\ Idle
    /\ dcall' = [kind |-> "ne_inner", used |-> ne_inner_used]
    /\ UNCHANGED <<voidVars, presets, whichfile, cfg, dc, lastSel, model, acall, threadVars, los>>

ReturnDc ==
    /\ dcall.kind # "none"
    /\ dcall' = NoDcCall
    /\ UNCHANGED <<voidVars, presets, whichfile, cfg, dc, lastSel, model, acall, threadVars, los>>

\* config_nemod.set_model(m), run to its end with no other thread: sets the
\* flags, writes which_model.inp, loads the preset's coefficients, hands
\* them to the importing modules and refreshes default_model.
SetModel ==
    \E m \in PresetNames :
        /\ Idle
        /\ cfg' = LoadConfig(m)
        /\ whichfile' = FileName(m)
        /\ dc' = Propagate(dc, LoadConfig(m))
        /\ lastSel' = m
        /\ model' = SetupAll(ArmGlobals(m))
        /\ UNCHANGED <<voidVars, presets, dcall, acall, threadVars, los>>

\* Query points of the arm evaluators: angle, twice the radius, z.
ArmPoint(th, rh, z) == [th |-> th, rh |-> rh, z |-> z]

ArmPoints ==
    { ArmPoint(0, 4, 0), ArmPoint(4, 7, 0), ArmPoint(5, 7, 1),
      ArmPoint(9, 9, 0), ArmPoint(20, 5, 0), ArmPoint(2, 20, 0) }

ArmBatches == UNION { [1..n -> ArmPoints] : n \in 1..MaxBatch }

\* nfinespline as the callers pass it (5 when they pass nothing).
FineSplineArgs == {3, 5}

\* The config globals ne_arms imported.
ArmsImported == ArmGlobals(IF cfg.eval_NE2001 THEN "ne2001" ELSE "ne2025")

\* A call of ne_arms_ne2001p on default_model, Ncoarse being the number of
\* coarse samples of the tables.
CallNeArms ==
    \E p \in ArmPoints, nf \in FineSplineArgs :
        /\ Idle
        /\ acall' = [kind |-> "scalar", pts |-> <<p>>, nfinespline |-> nf,
                     out |-> <<ne_arms_ne2001p(ArmsImported, model, p, nf,
                                               model.Ncoarse)>>]
        /\ UNCHANGED <<voidVars, cfgVars, model, threadVars, los>>

\* A call of ne_arms_ne2001p_vec on default_model.
CallNeArmsVec ==
    \E pts \in ArmBatches, nf \in FineSplineArgs :
        /\ Idle
        /\ acall' = [kind |-> "vec", pts |-> pts, nfinespline |-> nf,
                     out |-> ne_arms_ne2001p_vec(ArmsImported, model, pts, nf,
                                                 model.Ncoarse)]
        /\ UNCHANGED <<voidVars, cfgVars, model, threadVars, los>>

ReturnArms ==
    /\ acall.kind # "none"
    /\ acall' = NoDcCall
    /\ UNCHANGED <<voidVars, cfgVars, model, threadVars, los>>

\* The same set_model with a second thread evaluating: the part of
\* set_model before default_model.refresh() ...
SwitchBegin ==
    \E m \in PresetNames :
        /\ wpc = 0
        /\ cfg' = LoadConfig(m)
        /\ whichfile' = FileName(m)
        /\ dc' = Propagate(dc, LoadConfig(m))
        /\ lastSel' = m
        /\ wpc' = 1
        /\ UNCHANGED <<voidVars, presets, dcall, model, acall, rpc, rsnap, los>>

\* ... and one assignment "self.<field> = ..." of _setup, made on the shared
\* default_model itself.
SetupStep ==
    /\ wpc \in 1..Len(SetupOrder)
    /\ model' = [model EXCEPT ![SetupOrder[wpc]] =
                     SetupField(SetupOrder[wpc], ArmGlobals(lastSel))]
    /\ wpc' = IF wpc = Len(SetupOrder) THEN 0 ELSE wpc + 1
    /\ UNCHANGED <<voidVars, cfgVars, acall, rpc, rsnap, los>>

\* ne_arms_ne2001p in the second thread: entry, ...
ReadBegin ==
    /\ rpc = 0
    /\ rpc' = 1
    /\ rsnap' = <<>>
    /\ UNCHANGED <<voidVars, cfgVars, model, acall, wpc, los>>

\* ... one read of an attribute of default_model, ...
ReadStep ==
    /\ rpc \in 1..Len(ReadOrder)
    /\ rsnap' = Append(rsnap, model[ReadOrder[rpc]])
    /\ rpc' = rpc + 1
    /\ UNCHANGED <<voidVars, cfgVars, model, acall, wpc, los>>

\* ... and return.
ReadReturn ==
    /\ rpc = Len(ReadOrder) + 1
    /\ rpc' = 0
    /\ rsnap' = <<>>
    /\ UNCHANGED <<voidVars, cfgVars, model, acall, wpc, los>>

\* The density along a ray: a floor of 0 or 1 with up to two grid points
\* raised by 2 (an arm, a clump or a void edge crossed by the ray).
Profile(base, S) == [k \in 0..dmax |-> IF k \in S THEN base + 2 ELSE base]

Profiles ==
    { Profile(b, S) : b \in {0, 1},
                      S \in { T \in SUBSET (0..dmax) : Cardinality(T) <= 2 } }

FlatProfile == Profile(1, {})

\* Target DMs and target distances, one of each beyond its ceiling.
DMTargets == 1..(DMCeil + 1)
DistTargets == 1..(dmax + 1)

\* ne2001 / ne2025 called with ndir = 1 and a DM, or ndir = -1 and a
\* distance.
CallLos ==
    /\ los.pc = "idle"
    /\ \/ \E t \in DMTargets :
              los' = StartWalk(los.prof, 1, RatInt(t), RatInt(0))
       \/ \E t \in DistTargets :
              los' = StartWalk(los.prof, -1, RatInt(t), RatInt(0))
    /\ UNCHANGED <<voidVars, cfgVars, model, acall, threadVars>>

\* The second leg of a round trip: the distance a DM was inverted to, given
\* back with ndir = -1 along the same ray.
CallLosBack ==
    /\ los.pc = "done"
    /\ los.mode = "dm2d"
    /\ los.limit = Blank
    /\ los' = StartWalk(los.prof, -1, los.dist, los.target)
    /\ UNCHANGED <<voidVars, cfgVars, model, acall, threadVars>>

\* One step of the walk: advance, accumulate, test for the end.
LosStep ==
    /\ los.pc = "march"
    /\ los' = Status(Accumulate(los, NextStop(los)))
    /\ UNCHANGED <<voidVars, cfgVars, model, acall, threadVars>>

\* The caller takes the result.
ReturnLos ==
    /\ los.pc = "done"
    /\ los' = NoWalk(los.prof)
    /\ UNCHANGED <<voidVars, cfgVars, model, acall, threadVars>>

\* The five components that take a position.
Components == {"ne_gc", "nevoidN", "ne_outer", "ne_inner", "ne_arms_ne2001p"}

\* What may stand in a coordinate that is not a number of the grid.
NonFinite == {NaN, PInf, NInf}

\* The x, y, z of a position of the inputs of component fn.
Cartesian(fn, base) ==
    IF fn = "ne_arms_ne2001p"
    THEN [x |-> PointX(base), y |-> PointY(base), z |-> base.z]
    ELSE [x |-> base.x, y |-> base.y, z |-> base.z]

\* The positions with at least one non-finite coordinate, the finite
\* coordinates being those of the position base.
Spoiled(base) ==
    { p \in [x : NonFinite \cup {Fin(base.x)}, y : NonFinite \cup {Fin(base.y)},
             z : NonFinite \cup {Fin(base.z)}] :
        ~(IsFinite(p.x) /\ IsFinite(p.y) /\ IsFinite(p.z)) }

\* The finite positions the non-finite ones are made from.
SpoiledBases(fn) ==
    IF fn = "ne_arms_ne2001p" THEN ArmPoints
    ELSE IF fn = "nevoidN" THEN Points ELSE GcPoints

\* The component fn evaluated at the position p of doubles made from base.
EvalFloat(fn, p, base) ==
    IF fn = "ne_gc" THEN ne_gc_float(p, dc.ne_gc_absymax)
    ELSE IF fn = "nevoidN" THEN nevoidN_float(p)
    ELSE IF fn = "ne_outer" THEN ne_outer_float(p)
    ELSE IF fn = "ne_inner" THEN ne_inner_float(p)
    ELSE ne_arms_float(ArmsImported, model, p, base, 5, model.Ncoarse)

\* A call of one of the components with a position that is not finite.
CallNonFinite ==
    \E fn \in Components :
        \E base \in SpoiledBases(fn) :
            \E p \in Spoiled(Cartesian(fn, base)) :
                /\ Idle
                /\ dcall' = [kind |-> "nonfinite", fn |-> fn, p |-> p,
                             out |-> EvalFloat(fn, p, base)]
                /\ UNCHANGED <<voidVars, presets, whichfile, cfg, dc, lastSel, model, acall, threadVars, los>>

\* The bundles _setup is run on: either preset, with coarse samples of two
\* or three arms, well-formed or with one defect.
ArmCounts == {2, 3}

Bundles ==
    { WithDefect(FirstArms(ArmGlobals(m), n), d) :
          m \in PresetNames, n \in ArmCounts, d \in Defects }

\* my_model = GalaxyModel() with the bundle b in config_nemod.  built says
\* whether the constructor returned an instance, was is the arm count the
\* instance had before.
Construct ==
    \E b \in Bundles :
        /\ Idle
        /\ acall' = [kind |-> "setup", globals |-> b, was |-> 0,
                     built |-> SetupFrom(Unbuilt, b, 1).raised = "",
                     out |-> SetupFrom(Unbuilt, b, 1)]
        /\ UNCHANGED <<voidVars, cfgVars, model, threadVars, los>>

\* my_model.refresh() after the bundle in config_nemod has become b.
Refresh ==
    \E b \in Bundles :
        /\ acall.kind = "setup"
        /\ acall.built
        /\ acall' = [kind |-> "setup", globals |-> b, built |-> TRUE,
                     was |-> acall.out.model.narms,
                     out |-> SetupFrom(acall.out.model, b, 1)]
        /\ UNCHANGED <<voidVars, cfgVars, model, threadVars, los>>

----------------------------------------------------------------------------
(* Specifications *)

\* State after import: which_model.inp names the preset left by an earlier
\* run; config_nemod loads it and density_components imports its globals.
ImportModules(f) ==
    LET c == [eval_NE2001 |-> (f = "NE2001"), eval_NE2025 |-> (f = "NE2025"),
              par |-> presets[ModelOfFile(f)]]
    IN  /\ whichfile = f
        /\ cfg = c
        /\ dc = ImportDc(c)
        /\ lastSel = "none"
        /\ dcall = NoDcCall
        /\ model = SetupAll(ArmGlobals(ModelOfFile(f)))
        /\ acall = NoDcCall
        /\ wpc = 0
        /\ rpc = 0
        /\ rsnap = <<>>

\* The same with no line of sight in work.
ImportState(f) == ImportModules(f) /\ los = NoWalk(FlatProfile)

\* The void scan over every catalogue, under fixed presets.
InitVoid ==
    /\ cat \in Catalogues
    /\ vcall = NoCall
    /\ presets = DefaultPresets
    /\ ImportState("NE2025")

NextVoid == CallNevoidN \/ CallNevoidNVec \/ ReturnVoid

SpecVoid == InitVoid /\ [][NextVoid]_vars

\* The density components and set_model over every pair of presets, with no
\* void configured.
InitConfig ==
    /\ cat = <<>>
    /\ vcall = NoCall
    /\ presets \in PresetChoices
    /\ \E f \in {"NE2001", "NE2025"} : ImportState(f)

NextConfig == CallNeGc \/ CallNeOuter \/ CallNeInner \/ ReturnDc \/ SetModel

SpecConfig == InitConfig /\ [][NextConfig]_vars

\* The void and Galactic-centre terms together: either input set above.
InitField == InitVoid \/ InitConfig

NextField == CallNevoidN \/ ReturnVoid \/ CallNeGc \/ ReturnDc \/ SetModel

SpecField == InitField /\ [][NextField]_vars

\* The state after import under either preset, with the default parameter
\* files and no voids.
InitArms ==
    /\ cat = <<>>
    /\ vcall = NoCall
    /\ presets = DefaultPresets
    /\ \E f \in {"NE2001", "NE2025"} : ImportState(f)

\* The spiral-arm evaluators under either preset.
NextArms == CallNeArms \/ CallNeArmsVec \/ ReturnArms

SpecArms == InitArms /\ [][NextArms]_vars

\* A model switch in one thread and an arm evaluation in another.
InitSwitch == InitArms

NextSwitch == SwitchBegin \/ SetupStep \/ ReadBegin \/ ReadStep \/ ReadReturn

SpecSwitch == InitSwitch /\ [][NextSwitch]_vars

\* Line-of-sight integrations along every ray, in both modes, and round
\* trips.
InitLos ==
    /\ cat = <<>>
    /\ vcall = NoCall
    /\ presets = DefaultPresets
    /\ \E f \in {"NE2001", "NE2025"} : ImportModules(f)
    /\ los \in { NoWalk(p) : p \in Profiles }

NextLos == CallLos \/ CallLosBack \/ LosStep \/ ReturnLos

SpecLos == InitLos /\ [][NextLos]_vars

\* The components called with non-finite positions, under either preset,
\* with no void or one: the loop tests each void against the position alone.
InitNonFinite == (InitVoid /\ Len(cat) <= 1) \/ InitArms

NextNonFinite == CallNonFinite \/ ReturnDc

SpecNonFinite == InitNonFinite /\ [][NextNonFinite]_vars

\* Construction and refresh of a GalaxyModel over every bundle.
InitSetup == InitArms

NextSetup == Construct \/ Refresh \/ ReturnArms

SpecSetup == InitSetup /\ [][NextSetup]_vars

----------------------------------------------------------------------------
(* Terms of the claims about the void scan *)

\* Point p lies in the region of void j: q < 3 for a Gaussian void, q <= 1
\* for a hard-edge void.
InVoid(j, p) ==
    \/ cat[j].edgev = 0 /\ QNum(cat[j], p) < 3 * QDen(cat[j])
    \/ cat[j].edgev = 1 /\ QNum(cat[j], p) <= QDen(cat[j])

Matching(p) == { j \in 1..nvoids : InVoid(j, p) }

SetMax(S) == CHOOSE m \in S : \A k \in S : k <= m

\* Density of void j at p: peak * exp(-q) for a Gaussian void, else the peak.
VoidDensity(j, p) ==
    IF cat[j].edgev = 0 THEN ExpVal(cat[j].nev, QNum(cat[j], p), QDen(cat[j]))
    ELSE Num(cat[j].nev)

Centre(j) == [x |-> cat[j].xv, y |-> cat[j].yv, z |-> cat[j].zv]

IsVoidCall == vcall.kind \in {"scalar", "vec"}

\* C1: where several voids match a point, nevoidN and nevoidN_vec return the
\* density, F and hit index of the last matching void in index order.
C1_LastMatchWins ==
    IsVoidCall =>
        \A i \in 1..Len(vcall.pts) :
            LET M == Matching(vcall.pts[i])
            IN  M # {} =>
                    /\ vcall.out[i].hitvoid = SetMax(M)
                    /\ vcall.out[i].nevN = VoidDensity(SetMax(M), vcall.pts[i])
                    /\ vcall.out[i].FvN = cat[SetMax(M)].Fv

\* A point in two voids of different density and F; the later one is returned.
C1_Witness ==
    /\ vcall.kind = "scalar"
    /\ LET p == vcall.pts[1]
           M == Matching(p)
       IN  /\ Cardinality(M) >= 2
           /\ \E j \in M : /\ j < SetMax(M)
                           /\ VoidDensity(j, p) # VoidDensity(SetMax(M), p)
                           /\ cat[j].Fv # cat[SetMax(M)].Fv
           /\ vcall.out[1].hitvoid = SetMax(M)

\* C2 as stated: at the centre of every configured void j, nevoidN returns
\* nev[j], Fv[j], wvoid 1 and hit index j.
C2_Original ==
    vcall.kind = "scalar" =>
        \A j \in 1..nvoids :
            vcall.pts[1] = Centre(j) =>
                /\ vcall.out[1].nevN = Num(cat[j].nev)
                /\ vcall.out[1].FvN = cat[j].Fv
                /\ vcall.out[1].wvoid = 1
                /\ vcall.out[1].hitvoid = j

\* C2 as amended: at the centre of a void j whose edge flag is 0 or 1 and
\* whose centre lies in no later void, nevoidN returns nev[j], Fv[j], wvoid 1
\* and hit index j.
C2_CentreOfLastCoveringVoid ==
    vcall.kind = "scalar" =>
        \A j \in 1..nvoids :
            ( /\ vcall.pts[1] = Centre(j)
              /\ cat[j].edgev \in {0, 1}
              /\ \A k \in (j + 1)..nvoids : ~InVoid(k, Centre(j)) )
            => /\ vcall.out[1].nevN = Num(cat[j].nev)
               /\ vcall.out[1].FvN = cat[j].Fv
               /\ vcall.out[1].wvoid = 1
               /\ vcall.out[1].hitvoid = j

\* The centre of the first of two voids, the second not covering it.
C2_Witness ==
    /\ vcall.kind = "scalar"
    /\ nvoids = 2
    /\ vcall.pts[1] = Centre(1)
    /\ cat[1].edgev = 0
    /\ cat[2].edgev \in {0, 1}
    /\ ~InVoid(2, Centre(1))
    /\ vcall.out[1].hitvoid = 1
    /\ vcall.out[1].nevN = Num(cat[1].nev)

\* C6: nevoidN_vec gives at every index what nevoidN gives on that point.
C6_VecMatchesScalar ==
    vcall.kind = "vec" =>
        /\ Len(vcall.out) = Len(vcall.pts)
        /\ \A i \in 1..Len(vcall.pts) :
              LET r == nevoidN(vcall.pts[i])
              IN  /\ vcall.out[i].nevN = r.nevN
                  /\ vcall.out[i].FvN = r.FvN
                  /\ vcall.out[i].hitvoid = r.hitvoid
                  /\ vcall.out[i].wvoid = r.wvoid

\* A batch of two points, one in two overlapping voids of both edge types,
\* the other in none.
C6_Witness ==
    /\ vcall.kind = "vec"
    /\ Len(vcall.pts) = 2
    /\ \E i, k \in 1..2 :
          /\ Cardinality(Matching(vcall.pts[i])) = 2
          /\ { cat[j].edgev : j \in Matching(vcall.pts[i]) } = {0, 1}
          /\ vcall.out[i].hitvoid = 2
          /\ Matching(vcall.pts[k]) = {}
          /\ vcall.out[k].hitvoid = 0

----------------------------------------------------------------------------
(* Terms of the claims about the Galactic-centre term and set_model *)

\* Point p lies in the ellipsoid (rr/rgc)^2 + (|z-zgc|/hgc)^2 <= 1 of the
\* parameters g.
InGcEllipsoid(g, p) ==
    (Sq(p.x - g.xgc) + Sq(p.y - g.ygc)) * Sq(g.hgc) + Sq(p.z - g.zgc) * Sq(g.rgc)
        <= Sq(g.rgc) * Sq(g.hgc)

\* C3: outside every void nevoidN returns zeros, with no void configured it
\* returns them without scanning, and outside the Galactic-centre ellipsoid
\* ne_gc returns (0, 0).
C3_ZeroOutside ==
    /\ vcall.kind = "scalar" =>
          /\ Matching(vcall.pts[1]) = {} =>
                /\ vcall.out[1].nevN = Num(0)
                /\ vcall.out[1].FvN = 0
                /\ vcall.out[1].hitvoid = 0
                /\ vcall.out[1].wvoid = 0
          /\ nvoids = 0 => ~vcall.out[1].scanned
    /\ dcall.kind = "ne_gc" =>
          ( ~InGcEllipsoid(dc.par, dcall.p) => dcall.out.ne = 0 /\ dcall.out.F = 0 )

\* A scan of a catalogue with a void the point is outside of.
C3_Witness ==
    /\ vcall.kind = "scalar"
    /\ nvoids = 2
    /\ \A j \in 1..2 : cat[j].edgev \in {0, 1}
    /\ Matching(vcall.pts[1]) = {}
    /\ vcall.out[1].scanned
    /\ vcall.out[1].hitvoid = 0

\* A point in the bounding box and outside the ellipsoid, after a switch.
C3_WitnessGc ==
    /\ dcall.kind = "ne_gc"
    /\ lastSel # "none"
    /\ ~InGcEllipsoid(dc.par, dcall.p)
    /\ dcall.out.path = "outside"
    /\ dcall.out.ne = 0

\* C4 as stated: at every point inside the Galactic-centre ellipsoid ne_gc,
\* called with its default absymax, returns (negc0, Fgc0).
C4_Original ==
    (dcall.kind = "ne_gc" /\ ~dcall.given /\ InGcEllipsoid(dc.par, dcall.p))
        => dcall.out.ne = dc.par.negc0 /\ dcall.out.F = dc.par.Fgc0

\* C5: a call of ne_gc with |y| > absymax returns (0, 0) by the first return
\* statement, whatever x and z.
C5_EarlyExit ==
    (dcall.kind = "ne_gc" /\ Abs(dcall.p.y) > dcall.absymax)
        => dcall.out = [ne |-> 0, F |-> 0, path |-> "early"]

\* A point beyond the default absymax, off the axis of the centre.
C5_Witness ==
    /\ dcall.kind = "ne_gc"
    /\ ~dcall.given
    /\ Abs(dcall.p.y) > dcall.absymax
    /\ dcall.p.x # dc.par.xgc
    /\ dcall.p.z # dc.par.zgc
    /\ dcall.out.path = "early"

\* C9: after set_model(m) the flags, which_model.inp and Dgal['n1h1'] are
\* those of m, the last preset selected.
C9_LastPresetActive ==
    lastSel # "none" =>
        /\ cfg.eval_NE2001 = (lastSel = "ne2001")
        /\ cfg.eval_NE2025 = (lastSel = "ne2025")
        /\ whichfile = FileName(lastSel)
        /\ cfg.par.n1h1 = (IF lastSel = "ne2001" THEN N1H1_NE2001 ELSE N1H1_NE2025)

\* ne2001 selected in a run that was imported under ne2025.
C9_Witness ==
    /\ lastSel = "ne2001"
    /\ dc.ne_gc_absymax = 2 * presets["ne2025"].rgc
    /\ presets["ne2025"].rgc # presets["ne2001"].rgc
    /\ cfg.eval_NE2001
    /\ cfg.par.n1h1 = N1H1_NE2001

\* C10 as stated: after set_model every coefficient a call of ne_outer,
\* ne_inner or ne_gc evaluates with is that of the preset selected, the
\* default of absymax (2*rgc) included.
C10_Original ==
    (lastSel # "none" /\ dcall.kind # "none") =>
        LET g == presets[lastSel]
        IN  /\ dcall.kind = "ne_outer" => dcall.used.n1h1 = g.n1h1
            /\ dcall.kind = "ne_inner" => dcall.used.n2 = g.n2
            /\ dcall.kind = "ne_gc" =>
                  /\ dcall.used.rgc = g.rgc /\ dcall.used.hgc = g.hgc
                  /\ dcall.used.xgc = g.xgc /\ dcall.used.ygc = g.ygc
                  /\ dcall.used.zgc = g.zgc
                  /\ dcall.used.negc0 = g.negc0 /\ dcall.used.Fgc0 = g.Fgc0
                  /\ ~dcall.given => dcall.used.absymax = 2 * g.rgc

----------------------------------------------------------------------------
(* Terms of the claim about the model switch *)

\* What a call reads from a default_model that holds the bundle of preset m.
BundleRead(m) ==
    [i \in 1..Len(ReadOrder) |-> SetupAll(ArmGlobals(m))[ReadOrder[i]]]

\* C8 as stated: the fields of default_model an evaluation has read are those
\* of one preset, also when a set_model runs meanwhile.
C8_Original ==
    rpc = Len(ReadOrder) + 1 => \E m \in PresetNames : rsnap = BundleRead(m)

----------------------------------------------------------------------------
(* Terms of the claim about the batched arm evaluator *)

IsArmsVecCall == acall.kind = "vec"

ScalarOf(i) ==
    ne_arms_ne2001p(ArmsImported, model, acall.pts[i], acall.nfinespline,
                    model.Ncoarse)

\* C7: for every position i of a batch, ne_arms_ne2001p_vec takes for each
\* arm the window and the minimizing fine angle ne_arms_ne2001p takes on that
\* point alone, and so returns the same in-range arms, whicharm, Farm and
\* density terms, whatever points share its coarse-minimum group.
C7_VecMatchesScalar ==
    IsArmsVecCall =>
        \A i \in 1..Len(acall.pts) : acall.out[i] = ScalarOf(i)

\* A batch of two different points that share a coarse-minimum group on one
\* arm and stand alone in their groups on another, the first of them within
\* range of an arm.
C7_Witness ==
    /\ IsArmsVecCall
    /\ Len(acall.pts) = 2
    /\ acall.pts[1] # acall.pts[2]
    /\ \E j \in 1..model.narms :
           /\ index_dsqmin(ArmsImported, j, acall.pts[1])
                  = index_dsqmin(ArmsImported, j, acall.pts[2])
           /\ acall.out[1].fits[j].thjmin # acall.out[2].fits[j].thjmin
    /\ \E j \in 1..model.narms :
           index_dsqmin(ArmsImported, j, acall.pts[1])
               # index_dsqmin(ArmsImported, j, acall.pts[2])
    /\ acall.out[1].whicharm # 0
    /\ acall.out[1].inrange # {}

----------------------------------------------------------------------------
(* Terms of the claims about the line-of-sight integration *)

RatAbs(a) == [n |-> Abs(a.n), d |-> a.d]

\* |a - b| <= 1e-9 * b, for b > 0.
WithinRel9(a, b) ==
    LET diff == RatAbs(RatSub(a, b))
    IN  diff.n * b.d <= (b.n * diff.d) \div 1000000000

\* The second leg of a round trip has ended at its target.
RoundTripDone == los.pc = "done" /\ los.back.n # 0 /\ los.limit = Blank

RECURSIVE PanelSum(_, _, _, _)
\* The trapezoidal DM between grid points a and b in panels of width h.
PanelSum(prof, a, b, h) ==
    IF a >= b THEN RatInt(0)
    ELSE RatAdd(Trapezoid(RatInt(prof[a]), RatInt(prof[a + h]),
                          RatInt(a), RatInt(a + h)),
                PanelSum(prof, a + h, b, h))

\* The stretch of the ray on which the two legs sample differently: from the
\* last coarse stop of the second leg to the end of the coarse step that
\* holds the distance.
FineFrom(d) ==
    IF Floor(d) - FineWindow >= 0
    THEN ((Floor(d) - FineWindow) \div StepRatio) * StepRatio ELSE 0
CoarseTo(d) ==
    IF d.d = 1 /\ d.n % StepRatio = 0 THEN d.n
    ELSE (Floor(d) \div StepRatio + 1) * StepRatio

RatMax(a, b) == IF RatLe(a, b) THEN b ELSE a

\* The density does not vary on the stretch.
FlatOn(prof, a, b) == \A k \in a..b : prof[k] = prof[a]

C11_WitnessFlat ==
    /\ RoundTripDone
    /\ FlatOn(los.prof, FineFrom(los.dist), CoarseTo(los.dist))
    /\ los.dm = los.back
    /\ \E k \in 0..dmax : los.prof[k] # los.prof[0]

\* A walk has ended at its target, no ceiling hit.
TargetReached == los.pc = "done" /\ los.limit = Blank

\* C12 as stated: direction +1 takes the target as a distance and returns it
\* as the distance; direction -1 takes the target as a DM and returns it as
\* the DM.
C12_Original ==
    TargetReached =>
        /\ los.ndir = 1 => los.dist = los.target
        /\ los.ndir = -1 => los.dm = los.target

\* C12, amended: direction +1 takes the target as a DM, returns it as the DM
\* and returns the distance at which the accumulated DM reaches it (after
\* the last stop below it, no later than the stop that reached it);
\* direction -1 takes the target as a distance, walks to it and returns it
\* as the distance.
C12_DirectionModes ==
    TargetReached =>
        /\ los.ndir = 1 =>
               /\ los.dm = los.target
               /\ RatLt(los.series[Len(los.series)].s, los.dist)
               /\ RatLe(los.dist, los.pos)
               /\ RatLt(los.series[Len(los.series)].dm, los.target)
        /\ los.ndir = -1 =>
               /\ los.dist = los.target
               /\ los.pos = los.target

\* A call with direction +1 that has returned its target as the DM and a
\* different number, between two stops, as the distance.
C12_Witness ==
    /\ TargetReached
    /\ los.ndir = 1
    /\ los.dm = los.target
    /\ los.dist # los.target
    /\ los.dist.d # 1

\* The DM a walk in inverse mode has accumulated at its stop p.
CoarseDM(p) == PanelSum(los.prof, 0, p, StepRatio)

\* The walk's target lies at or before its last stop.
AtTarget ==
    IF los.mode = "dm2d" THEN RatLe(los.target, CoarseDM(Floor(los.pos)))
    ELSE los.pos = los.target

\* C13: a walk ends in exactly one of the three statuses: blank when its
\* target was reached, else distance-limited at the maximum distance, else
\* DM-limited at the maximum DM; a limited walk returns the distance it got
\* to and the DM and SM accumulated up to there; a walk still going is short
\* of the maximum distance, so its next step is defined; a forward walk to a
\* distance within the maximum whose DM stays below the ceiling ends blank
\* at that distance.
C13_TerminalStatus ==
    /\ los.pc = "march" => RatLt(los.pos, RatInt(dmax))
    /\ los.pc = "done" =>
        /\ los.limit \in {Blank, DistLimited, DMLimited}
        /\ los.limit = Blank <=> AtTarget
        /\ los.limit = DistLimited <=> (~AtTarget /\ los.pos = RatInt(dmax))
        /\ los.limit = DMLimited <=>
               (~AtTarget /\ los.pos # RatInt(dmax) /\ RatLe(RatInt(DMCeil), los.dm))
        /\ los.limit # Blank =>
               /\ los.dist = los.pos
               /\ los.mode = "dm2d" => los.dm = CoarseDM(Floor(los.pos))
               /\ RatLe(RatInt(0), los.sm)
               /\ los.sm.n = 0 <=> los.dm.n = 0
        /\ (los.mode = "d2dm" /\ RatLe(los.target, RatInt(dmax))
              /\ RatLt(los.dm, RatInt(DMCeil)))
               => los.limit = Blank /\ los.dist = los.target

\* An inverse walk stopped by the maximum distance with a DM accumulated.
C13_Witness ==
    /\ los.pc = "done"
    /\ los.mode = "dm2d"
    /\ los.limit = DistLimited
    /\ los.dm.n > 0

\* A forward walk stopped by the maximum DM short of its target.
C13_WitnessDM ==
    /\ los.pc = "done"
    /\ los.mode = "d2dm"
    /\ los.limit = DMLimited
    /\ RatLt(los.dist, los.target)

-----------------------------------------------------------------------------
(* Terms of the claim about non-finite coordinates *)

\* C14: a call of ne_gc, nevoidN, ne_outer, ne_inner or ne_arms_ne2001p with
\* a coordinate that is NaN or infinite fails with an exception; it never
\* returns a density.
C14_Original ==
    dcall.kind = "nonfinite" => dcall.out.raised # ""

-----------------------------------------------------------------------------
(* Terms of the claims about GalaxyModel *)

\* C15: construction or refresh on a bundle whose per-arm fields disagree in
\* length with the arm count of the coarse samples fails with an exception.
C15_Original ==
    (acall.kind = "setup" /\ Malformed(acall.globals))
        => acall.out.raised # ""

C16_WitnessPrebuilt ==
    /\ acall.kind = "setup"
    /\ acall.out.raised = ""
    /\ acall.was # 0
    /\ acall.globals.armsplines.given
    /\ acall.out.model.arm_radius_splines = acall.globals.armsplines.list

-----------------------------------------------------------------------------
(* Terms of the claims about the nearest-arm search *)

\* The larger and the smaller of two numbers.
Max2(a, b) == IF a >= b THEN a ELSE b
Min2(a, b) == IF a <= b THEN a ELSE b

\* The symmetric window of nfinespline samples around coarse minimum k,
\* clipped to the samples 1..Ncoarse.
SymmetricWindow(k, nfinespline, Ncoarse) ==
    [lo |-> Max2(1, k - nspline2(nfinespline)),
     hi |-> Min2(Ncoarse, k + nspline2(nfinespline))]

\* An evaluation of the arms, scalar or batched, has returned.
IsArmsCall == acall.kind \in {"scalar", "vec"}

\* C17: for every position and arm, the window the fine search used is the
\* symmetric window of nfinespline coarse samples around the coarse minimum,
\* clipped to the first and last sample.
C17_Original ==
    IsArmsCall =>
        \A i \in 1..Len(acall.pts) : \A j \in 1..model.narms :
            LET k == index_dsqmin(ArmsImported, j, acall.pts[i])
                w == SymmetricWindow(k, acall.nfinespline, model.Ncoarse)
            IN  /\ acall.out[i].fits[j].lo = w.lo
                /\ acall.out[i].fits[j].hi = w.hi

\* The squared nearest distance of position i of the call to arm j, on the
\* grid of dminSq.
CallDminSq(i, j) ==
    dminSq(model, j, acall.pts[i], acall.out[i].fits[j].thjmin)

\* The arms that have a term in the density returned for position i.
Contributing(i) ==
    { acall.out[i].nea[t].arm : t \in 1..Len(acall.out[i].nea) }

\* The arms whose legacy number is the whicharm returned for position i.
Designated(i) ==
    { j \in 1..model.narms : model.arm_index[j] = acall.out[i].whicharm }

InRange(i) ==
    { j \in 1..model.narms : CallDminSq(i, j) < 9 * Sq(Fine(model.wa)) }

\* The in-range arms at the smallest nearest distance from position i.
Nearest(i) ==
    { j \in InRange(i) :
          \A h \in InRange(i) : CallDminSq(i, j) <= CallDminSq(i, h) }

\* C19: whicharm is the legacy number of the in-range arm at the smallest
\* nearest distance, the one scanned first when several are at exactly that
\* distance, and 0 when no arm is in range.
C19_Original ==
    IsArmsCall =>
        \A i \in 1..Len(acall.pts) :
            IF InRange(i) = {}
            THEN acall.out[i].whicharm = 0
            ELSE acall.out[i].whicharm
                     = model.arm_index[CHOOSE j \in Nearest(i) :
                                           \A h \in Nearest(i) : j <= h]

\* Two in-range arms at exactly the same smallest distance.
C19_Tie ==
    IsArmsCall /\ \E i \in 1..Len(acall.pts) : Cardinality(Nearest(i)) > 1

\* The same with the arm scanned last keeping the designation in a tie.
C19_LastOfTies ==
    IsArmsCall =>
        \A i \in 1..Len(acall.pts) :
            IF InRange(i) = {}
            THEN acall.out[i].whicharm = 0
            ELSE acall.out[i].whicharm
                     = model.arm_index[CHOOSE j \in Nearest(i) :
                                           \A h \in Nearest(i) : j >= h]

\* C20: the fluctuation parameter returned is the global Fa when at least
\* one arm is in range, whichever arm is designated and whatever its
\* multipliers, and 0 exactly when no arm is in range, which is when
\* whicharm is 0; the batched form returns for each position what the scalar
\* form returns for it.
C20_GlobalFarm ==
    IsArmsCall =>
        \A i \in 1..Len(acall.pts) :
            /\ InRange(i) # {} => acall.out[i].Farm = model.Fa
            /\ InRange(i) = {} => acall.out[i].Farm = 0
            /\ acall.out[i].Farm = 0 <=> acall.out[i].whicharm = 0
            /\ acall.out[i].Farm = ScalarOf(i).Farm

\* A batch with a position out of range of every arm and a position whose
\* designated arm has a width multiplier other than 1.
C20_Witness ==
    /\ IsArmsVecCall
    /\ \E i \in 1..Len(acall.pts) : InRange(i) = {}
    /\ \E i \in 1..Len(acall.pts) :
           /\ acall.out[i].Farm = model.Fa
           /\ \E j \in Designated(i) : j \in Nearest(i) /\ model.warm[j] # 1

\* The amplitude correction the windows call for: for legacy arm 3 inside
\* 290..363 degrees, for legacy arm 2 inside 340..370 degrees, the angle
\* taken modulo 360; none elsewhere.
WindowOf(jj, theta) ==
    IF jj = 3 /\ (theta - 290) % 360 < 73 THEN "arm3"
    ELSE IF jj = 2 /\ (theta - 340) % 360 < 30 THEN "arm2"
    ELSE "none"

\* C21: in every evaluation, scalar or batched, the term of a contributing
\* arm carries the legacy-arm-3 factor iff the arm's legacy index is 3 and
\* (theta - 290) mod 360 < 73, the legacy-arm-2 factor iff the legacy index
\* is 2 and (theta - 340) mod 360 < 30, and no factor otherwise.
C21_AmplitudeWindows ==
    IsArmsCall =>
        \A i \in 1..Len(acall.pts) : \A t \in 1..Len(acall.out[i].nea) :
            LET term == acall.out[i].nea[t]
            IN  term.rescale[1]
                    = WindowOf(model.arm_index[term.arm], thxydeg(acall.pts[i]))

\* A position at an angle below 290 degrees, inside a window only through
\* the wrap at 360, with a corrected arm contributing.
C21_Witness ==
    /\ IsArmsCall
    /\ \E i \in 1..Len(acall.pts) : \E t \in 1..Len(acall.out[i].nea) :
           /\ thxydeg(acall.pts[i]) < 290
           /\ acall.out[i].nea[t].rescale[1] # "none"

\* Positions inside a window with an uncorrected arm contributing, and
\* with legacy arm 3 or 2 contributing outside its window.
C21_WitnessUnchanged ==
    /\ IsArmsCall
    /\ \E i \in 1..Len(acall.pts) : \E t \in 1..Len(acall.out[i].nea) :
           /\ model.arm_index[acall.out[i].nea[t].arm] \in {2, 3}
           /\ acall.out[i].nea[t].rescale[1] = "none"
    /\ \E i \in 1..Len(acall.pts) : \E t \in 1..Len(acall.out[i].nea) :
           /\ model.arm_index[acall.out[i].nea[t].arm] = 1
           /\ (thxydeg(acall.pts[i]) - 290) % 360 < 73

\* rr^2 of position i of the call, on the grid of PointX and PointY (40
\* units to one unit of r1).
CallRadiusSq(i) == Sq(PointX(acall.pts[i])) + Sq(PointY(acall.pts[i]))

\* C22 as stated: the radial taper is on the term of a contributing arm iff
\* the position's cylindrical radius is beyond rsun.
C22_Original ==
    IsArmsCall =>
        \A i \in 1..Len(acall.pts) : \A t \in 1..Len(acall.out[i].nea) :
            acall.out[i].nea[t].taper <=> CallRadiusSq(i) > Sq(40 * rsun)

\* C22: the radial taper is on the term of a contributing arm iff the
\* position's cylindrical radius is beyond the arm scale Aa of the model,
\* and then it is sech2((rr - Aa) / 2).
C22_TaperBeyondAa ==
    IsArmsCall =>
        \A i \in 1..Len(acall.pts) : \A t \in 1..Len(acall.out[i].nea) :
            /\ acall.out[i].nea[t].taper
                   <=> CallRadiusSq(i) > Sq(40 * model.Aa)
            /\ acall.out[i].nea[t].Aa = model.Aa

\* A batch with a contributing arm at a position beyond Aa, and one at a
\* position beyond the Sun's radius but not beyond Aa.
C22_Witness ==
    /\ IsArmsVecCall
    /\ \E i \in 1..Len(acall.pts) : \E t \in 1..Len(acall.out[i].nea) :
           acall.out[i].nea[t].taper
    /\ \E i \in 1..Len(acall.pts) : \E t \in 1..Len(acall.out[i].nea) :
           /\ ~acall.out[i].nea[t].taper
           /\ CallRadiusSq(i) > Sq(40 * rsun)

-----------------------------------------------------------------------------
(* Terms of the claims about the outputs of the void scan and the pre-check *)

\* C23: for every catalogue and every position of a scalar or batched scan,
\* 0 <= hitvoid <= nvoids; wvoid is 1 iff hitvoid is not 0, else 0;
\* hitvoid = 0 implies density 0 and F 0; a void whose edge flag is neither 0
\* nor 1 is never the hit; a Gaussian void is hit only with q < 3 and a
\* hard-edge void only with q <= 1, and every void so matched is the hit
\* unless a later one is.
C23_VoidOutputs ==
    IsVoidCall =>
        \A i \in 1..Len(vcall.pts) :
            LET o == vcall.out[i]
                p == vcall.pts[i]
            IN  /\ o.hitvoid \in 0..nvoids
                /\ o.wvoid = IF o.hitvoid # 0 THEN 1 ELSE 0
                /\ o.hitvoid = 0 => (o.nevN = Num(0) /\ o.FvN = 0)
                /\ \A j \in 1..nvoids :
                       LET v == cat[j]
                       IN  /\ v.edgev \notin {0, 1} => o.hitvoid # j
                           /\ v.edgev = 0 =>
                                  /\ o.hitvoid = j => QNum(v, p) < 3 * QDen(v)
                                  /\ QNum(v, p) < 3 * QDen(v) => o.hitvoid >= j
                           /\ v.edgev = 1 =>
                                  /\ o.hitvoid = j => QNum(v, p) <= QDen(v)
                                  /\ QNum(v, p) <= QDen(v) => o.hitvoid >= j

\* A position inside the ellipsoid of a void whose edge flag is neither 0
\* nor 1, and in no other void: no hit.
C23_Witness ==
    /\ IsVoidCall
    /\ \E i \in 1..Len(vcall.pts) : \E j \in 1..nvoids :
           /\ cat[j].edgev \notin {0, 1}
           /\ QNum(cat[j], vcall.pts[i]) <= QDen(cat[j])
           /\ vcall.out[i].hitvoid = 0
           /\ vcall.out[i].wvoid = 0

\* A batch with a position at exactly q = 3 of a Gaussian void, not hit, and
\* a position at exactly q = 1 of a hard-edge void, hit.
C23_WitnessThresholds ==
    /\ vcall.kind = "vec"
    /\ \E i \in 1..Len(vcall.pts) : \E j \in 1..nvoids :
           /\ cat[j].edgev = 0
           /\ QNum(cat[j], vcall.pts[i]) = 3 * QDen(cat[j])
           /\ vcall.out[i].hitvoid = 0
    /\ \E i \in 1..Len(vcall.pts) : \E j \in 1..nvoids :
           /\ cat[j].edgev = 1
           /\ QNum(cat[j], vcall.pts[i]) = QDen(cat[j])
           /\ vcall.out[i].hitvoid = j

\* C24: the pre-check on |y| never changes the answer of ne_gc called with
\* its default absymax: the call returns the density and F that the radius,
\* height and ellipsoid tests alone give for the point, so a point the
\* pre-check rejects is not inside the ellipsoid.
C24_Original ==
    (dcall.kind = "ne_gc" /\ ~dcall.given) =>
        /\ dcall.out.ne = ne_gc_NoEarlyExit(dcall.p, dcall.absymax).ne
        /\ dcall.out.F = ne_gc_NoEarlyExit(dcall.p, dcall.absymax).F

====
